---------------------------- MODULE Spec2Model ----------------------------
(***************************************************************************)
(* Regional labor-rate resolution of fair-repair-auto-backend:             *)
(*   src/zipToState.js   getStateFromZip                                   *)
(*   src/laborRates.js   calculateDistance, getZipCoordinates,             *)
(*                       getLaborRate                                      *)
(*                                                                         *)
(* Numbers.  TLC has 32-bit integers only, so every JavaScript number is   *)
(* an integer in a fixed unit:                                             *)
(*   dollars per hour      in cents            (144.06  -> 14406)          *)
(*   degrees               in 1e-7 degree      (40.7128 -> 407128000)      *)
(*   radians, sin, cos, h  in 1e-8             (fixed point, Taylor series)*)
(*   miles                 in 1e-5 mile        (15      -> 1500000)        *)
(* The haversine formula is evaluated step by step as the code writes it;  *)
(* the fixed-point result is within about 5e-4 mile of the double result.  *)
(* Where rounding makes the haversine term a exceed 1 (points opposite one *)
(* another on the globe), Math.sqrt(1 - a) is NaN and so is the distance;  *)
(* NaNDistance stands for it.  Quote figures are whole dollars, and the    *)
(* multiplier is in 1e-8.                                                  *)
(***************************************************************************)
EXTENDS Integers, Sequences, FiniteSets, TLC

(***************************************************************************)
(* JavaScript values that can arrive as `zip` (a JSON request field or a   *)
(* direct call).  One record shape for all of them:                        *)
(*   t  the type tag, s  the characters of a string,                       *)
(*   n  the value of a number or boolean (0/1), or the length property of  *)
(*      an array; NoLength for an object without a length property.        *)
(***************************************************************************)
NoLength == 0 - 1

JSUndefined == [t |-> "undefined", s |-> <<>>, n |-> 0]

JSNullValue == [t |-> "null", s |-> <<>>, n |-> 0]

JSString(chars) == [t |-> "string", s |-> chars, n |-> 0]

JSNumber(k) == [t |-> "number", s |-> <<>>, n |-> k]

JSBoolean(b) == [t |-> "boolean", s |-> <<>>, n |-> IF b THEN 1 ELSE 0]

JSArray(len) == [t |-> "array", s |-> <<>>, n |-> len]

JSObject == [t |-> "object", s |-> <<>>, n |-> NoLength]

\* ToBoolean: undefined, null, "", 0 and false are falsy; the rest is truthy.
ToBoolean(v) ==
  CASE v.t = "undefined" -> FALSE
    [] v.t = "null"      -> FALSE
    [] v.t = "string"    -> Len(v.s) > 0
    [] v.t = "number"    -> v.n # 0
    [] v.t = "boolean"   -> v.n = 1
    [] OTHER             -> TRUE

\* typeof v
TypeOf(v) ==
  CASE v.t = "null"  -> "object"
    [] v.t = "array" -> "object"
    [] OTHER         -> v.t

\* A property read (v.length, v.substring) throws TypeError on undefined and null.
HasProperties(v) == v.t \notin {"undefined", "null"}

\* The value of v.length: a number for strings and arrays, undefined (NoLength)
\* for numbers, booleans and plain objects.
LengthOf(v) ==
  CASE v.t = "string" -> Len(v.s)
    [] v.t = "array"  -> v.n
    [] OTHER          -> NoLength

(***************************************************************************)
(* parseInt(string) with no radix.  A number-or-NaN is a record            *)
(* [nan, v]; every comparison with NaN is false.                           *)
(***************************************************************************)
NaN == [nan |-> TRUE, v |-> 0]

Number(k) == [nan |-> FALSE, v |-> k]

WhiteSpace == {" "}

DecDigits == <<"0", "1", "2", "3", "4", "5", "6", "7", "8", "9">>

\* The decimal digits of a non-negative integer, most significant first.
RECURSIVE Digits(_)
Digits(k) ==
  IF k < 10 THEN <<DecDigits[k + 1]>>
  ELSE Append(Digits(k \div 10), Digits(k % 10)[1])

\* ToString(v) of the language, which parseInt applies to its argument first.  An array is one
\* of v.n holes (new Array(n)), whose elements print as empty strings.
JSToString(v) ==
  CASE v.t = "string"    -> v.s
    [] v.t = "undefined" -> <<"u", "n", "d", "e", "f", "i", "n", "e", "d">>
    [] v.t = "null"      -> <<"n", "u", "l", "l">>
    [] v.t = "boolean"   -> IF v.n = 1 THEN <<"t", "r", "u", "e">>
                            ELSE <<"f", "a", "l", "s", "e">>
    [] v.t = "number"    -> IF v.n < 0 THEN <<"-">> \o Digits(0 - v.n) ELSE Digits(v.n)
    [] v.t = "array"     -> [i \in 1..(IF v.n > 0 THEN v.n - 1 ELSE 0) |-> ","]
    [] OTHER             -> <<"[", "o", "b", "j", "e", "c", "t", " ", "O", "b", "j", "e",
                              "c", "t", "]">>

\* The value of character c as a digit in radix r, or NoLength (-1) if it is none.
DecimalValue(c) ==
  CASE c = "0" -> 0 [] c = "1" -> 1 [] c = "2" -> 2 [] c = "3" -> 3 [] c = "4" -> 4
    [] c = "5" -> 5 [] c = "6" -> 6 [] c = "7" -> 7 [] c = "8" -> 8 [] c = "9" -> 9
    [] OTHER -> NoLength

HexValue(c) ==
  CASE c \in {"a", "A"} -> 10 [] c \in {"b", "B"} -> 11 [] c \in {"c", "C"} -> 12
    [] c \in {"d", "D"} -> 13 [] c \in {"e", "E"} -> 14 [] c \in {"f", "F"} -> 15
    [] OTHER -> DecimalValue(c)

DigitValue(c, r) == IF r = 16 THEN HexValue(c) ELSE DecimalValue(c)

\* String.prototype.substring(from, to) for 0 <= from <= to.
Substring(chars, from, to) ==
  LET hi == IF to < Len(chars) THEN to ELSE Len(chars)
  IN  IF from >= hi THEN <<>> ELSE SubSeq(chars, from + 1, hi)

RECURSIVE SkipWhiteSpace(_)
SkipWhiteSpace(chars) ==
  IF chars # <<>> /\ Head(chars) \in WhiteSpace
    THEN SkipWhiteSpace(Tail(chars))
    ELSE chars

\* The longest run of radix-r digits from position i, accumulated left to right:
\* [count |-> digits consumed, v |-> their value].
RECURSIVE ParseDigits(_, _, _, _, _)
ParseDigits(chars, i, r, count, acc) ==
  IF i > Len(chars) \/ DigitValue(chars[i], r) = NoLength
    THEN [count |-> count, v |-> acc]
    ELSE ParseDigits(chars, i + 1, r, count + 1, (acc * r) + DigitValue(chars[i], r))

parseInt(chars) ==
  LET trimmed  == SkipWhiteSpace(chars)
      negative == trimmed # <<>> /\ Head(trimmed) = "-"
      unsigned == IF trimmed # <<>> /\ Head(trimmed) \in {"-", "+"}
                    THEN Tail(trimmed) ELSE trimmed
      hex      == Len(unsigned) >= 2 /\ unsigned[1] = "0" /\ unsigned[2] \in {"x", "X"}
      body     == IF hex THEN Tail(Tail(unsigned)) ELSE unsigned
      parsed   == ParseDigits(body, 1, IF hex THEN 16 ELSE 10, 0, 0)
  IN  IF parsed.count = 0 THEN NaN
      ELSE Number(IF negative THEN 0 - parsed.v ELSE parsed.v)

\* zipNum >= k, zipNum <= k in JavaScript: false when zipNum is NaN.
GE(x, k) == ~x.nan /\ x.v >= k

LE(x, k) == ~x.nan /\ x.v <= k


(***************************************************************************)
(* Fixed-point arithmetic.  A value x is the integer floor(x * Scale).     *)
(* Products are formed limb by limb (base Limb) so that no intermediate    *)
(* exceeds 32 bits.  A wide value <<hi, lo>> is (hi * Scale + lo) in units *)
(* of 1 / Scale^2; it holds the haversine term h, which is about 4e-6 at   *)
(* fifteen miles and needs the extra digits.                               *)
(***************************************************************************)
Limb == 100 * 100

Scale == Limb * Limb

Abs(x) == IF x < 0 THEN 0 - x ELSE x

\* <<hi, lo>> with hi * Scale + lo = a * b, for 0 <= a, b.
MulWide(a, b) ==
  LET ah  == a \div Limb
      al  == a % Limb
      bh  == b \div Limb
      bl  == b % Limb
      mid == (ah * bl) + (al * bh) + ((al * bl) \div Limb)
  IN  << (ah * bh) + (mid \div Limb), ((mid % Limb) * Limb) + ((al * bl) % Limb) >>

\* a * b in fixed point, truncated toward zero.
Mul(a, b) ==
  LET p == MulWide(Abs(a), Abs(b))[1]
  IN  IF (a < 0) # (b < 0) THEN 0 - p ELSE p

\* Division truncated toward zero, as the sign-symmetric double division is.
Quot(a, k) == IF a < 0 THEN 0 - ((0 - a) \div k) ELSE a \div k

\* a / b in fixed point for a >= 0, b > 0, by long division; each of the eight
\* decimal places is taken as a factor 5 and a factor 2 to stay within 32 bits.
RECURSIVE DivDigits(_, _, _, _)
DivDigits(rem, b, quo, places) ==
  IF places = 0 THEN quo
  ELSE LET q5 == (rem * 5) \div b
           r5 == (rem * 5) % b
           q2 == (r5 * 2) \div b
           r2 == (r5 * 2) % b
       IN  DivDigits(r2, b, (((quo * 5) + q5) * 2) + q2, places - 1)

Div(a, b) == DivDigits(a % b, b, a \div b, 8)

WideLE(x, y) == x[1] < y[1] \/ (x[1] = y[1] /\ x[2] <= y[2])

\* The largest r in lo..hi with r * r <= w (plain integers), by bisection.
RECURSIVE IntRoot(_, _, _)
IntRoot(w, lo, hi) ==
  IF lo >= hi THEN lo
  ELSE LET m == (lo + hi + 1) \div 2
       IN  IF m * m <= w THEN IntRoot(w, m, hi) ELSE IntRoot(w, lo, m - 1)

\* The largest r in lo..hi with r * r <= the wide value w, by bisection.
RECURSIVE WideRoot(_, _, _)
WideRoot(w, lo, hi) ==
  IF lo >= hi THEN lo
  ELSE LET m == (lo + hi + 1) \div 2
       IN  IF WideLE(MulWide(m, m), w) THEN WideRoot(w, m, hi) ELSE WideRoot(w, lo, m - 1)

\* Math.sqrt of a wide value in [0, 4): the fixed-point root.
SqrtWide(w) ==
  LET r == IntRoot(w[1], 0, 2 * Limb)
  IN  WideRoot(w, r * Limb, r * Limb + Limb - 1)

\* The sum x - x^3/3! + x^5/5! - ... from the term `term` of degree n on.
RECURSIVE SinSeries(_, _, _, _)
SinSeries(term, xx, n, acc) ==
  IF term = 0 THEN acc
  ELSE SinSeries(Quot(0 - Mul(term, xx), (n + 1) * (n + 2)), xx, n + 2, acc + term)

\* Math.PI in fixed point, and Math.PI / 2.
PI == 314159265

HalfPI == PI \div 2

\* No sine or cosine exceeds 1.
AtMostOne(x) == IF x > Scale THEN Scale ELSE x

\* Math.sin(x) for -PI <= x <= PI, x in radians (fixed point): an odd function;
\* an argument beyond PI / 2 is reduced by sin(x) = sin(PI - x).
Sin(x) ==
  LET r == IF Abs(x) > HalfPI THEN PI - Abs(x) ELSE Abs(x)
      s == AtMostOne(SinSeries(r, Mul(r, r), 1, 0))
  IN  IF x < 0 THEN 0 - s ELSE s

\* Math.cos(x) for -PI / 2 <= x <= PI / 2: 1 - x^2/2! + x^4/4! - ...
Cos(x) == AtMostOne(SinSeries(Scale, Mul(x, x), 0, 0))

\* The sum t - t^3/3 + t^5/5 - ... from the power `pow` = +-t^n on.
RECURSIVE AtanSeries(_, _, _, _)
AtanSeries(pow, tt, n, acc) ==
  IF pow = 0 THEN acc
  ELSE AtanSeries(0 - Mul(pow, tt), tt, n + 2, acc + Quot(pow, n))

\* atan(t) for 0 <= t <= 1; the argument is halved once,
\* atan(t) = 2 atan(t / (1 + sqrt(1 + t^2))), so that the series converges fast.
Atan(t) ==
  LET u == Div(t, Scale + SqrtWide(<<Scale + Mul(t, t), 0>>))
  IN  2 * AtanSeries(u, Mul(u, u), 1, 0)

\* Math.atan2(y, x) for y >= 0 and x >= 0, not both zero: the only quadrant
\* the two square roots of calculateDistance can produce.
Atan2(y, x) ==
  IF y <= x THEN Atan(Div(y, x)) ELSE HalfPI - Atan(Div(x, y))

(***************************************************************************)
(* src/zipToState.js                                                       *)
(***************************************************************************)
\* null as returned in a string-valued position, and a thrown TypeError.
JSNull == "null"

TypeError == "TypeError"

Range(low, high, state) == [low |-> low, high |-> high, state |-> state]

\* The chain of range checks, in source order.
ZipRanges ==
  << Range(35000, 36999, "AL"), Range(99500, 99999, "AK"), Range(85000, 86999, "AZ"),
     Range(71600, 72999, "AR"), Range(90000, 96699, "CA"), Range(80000, 81999, "CO"),
     Range(6000, 6999, "CT"),   Range(19700, 19999, "DE"), Range(20000, 20099, "DC"),
     Range(32000, 34999, "FL"), Range(30000, 31999, "GA"), Range(96700, 96899, "HI"),
     Range(83200, 83999, "ID"), Range(60000, 62999, "IL"), Range(46000, 47999, "IN"),
     Range(50000, 52999, "IA"), Range(66000, 67999, "KS"), Range(40000, 42999, "KY"),
     Range(70000, 71599, "LA"), Range(3900, 4999, "ME"),   Range(20600, 21999, "MD"),
     Range(1000, 2799, "MA"),   Range(48000, 49999, "MI"), Range(55000, 56999, "MN"),
     Range(38600, 39999, "MS"), Range(63000, 65999, "MO"), Range(59000, 59999, "MT"),
     Range(68000, 69999, "NE"), Range(88900, 89999, "NV"), Range(3000, 3899, "NH"),
     Range(7000, 8999, "NJ"),   Range(87000, 88499, "NM"), Range(10000, 14999, "NY"),
     Range(27000, 28999, "NC"), Range(58000, 58999, "ND"), Range(43000, 45999, "OH"),
     Range(73000, 74999, "OK"), Range(97000, 97999, "OR"), Range(15000, 19699, "PA"),
     Range(2800, 2999, "RI"),   Range(29000, 29999, "SC"), Range(57000, 57999, "SD"),
     Range(37000, 38599, "TN"), Range(75000, 79999, "TX"), Range(84000, 84999, "UT"),
     Range(5000, 5999, "VT"),   Range(20100, 20199, "VA"), Range(22000, 24699, "VA"),
     Range(98000, 99499, "WA"), Range(24700, 26999, "WV"), Range(53000, 54999, "WI"),
     Range(82000, 83199, "WY") >>

\* Mutant: the lower bound one too far.
RangeMatches_BelowLow(zipNum, r) == GE(zipNum, r.low - 1) /\ LE(zipNum, r.high)

\* Mutant: the upper bound exclusive.
RangeMatches_ExclusiveHigh(zipNum, r) == GE(zipNum, r.low) /\ LE(zipNum, r.high - 1)

\* Mutant: the upper bound one too far.
RangeMatches_PastHigh(zipNum, r) == GE(zipNum, r.low) /\ LE(zipNum, r.high + 1)

\* One check of the chain: if (zipNum >= low && zipNum <= high).
RangeMatches(zipNum, r) == GE(zipNum, r.low) /\ LE(zipNum, r.high)

\* The checks of `ranges` from position i on; the first that matches returns.
RECURSIVE ScanRanges(_, _, _)
ScanRanges(zipNum, ranges, i) ==
  IF i > Len(ranges) THEN JSNull
  ELSE IF RangeMatches(zipNum, ranges[i]) THEN ranges[i].state
  ELSE ScanRanges(zipNum, ranges, i + 1)

\* Mutant: the guard without `typeof zip !== 'string'`.
getStateFromZip_NoTypeCheck(zip) ==
  IF ~ToBoolean(zip) THEN JSNull
  ELSE IF ~HasProperties(zip) \/ zip.t # "string" THEN TypeError
  ELSE ScanRanges(parseInt(Substring(zip.s, 0, 5)), ZipRanges, 1)

getStateFromZip(zip) ==
  IF ~ToBoolean(zip) \/ TypeOf(zip) # "string" THEN JSNull
  ELSE IF ~HasProperties(zip) \/ zip.t # "string" THEN TypeError
  ELSE ScanRanges(parseInt(Substring(zip.s, 0, 5)), ZipRanges, 1)


(***************************************************************************)
(* src/laborRates.js: the tables                                           *)
(***************************************************************************)
\* An entry of STATE_LABOR_RATES: dollars per hour, in cents.
Rate(state, cents) == [state |-> state, rate |-> cents]

\* Mutant: the table without an entry for DC.
STATE_LABOR_RATES_NoDC ==
  << Rate("AZ", 13878), Rate("DE", 14215), Rate("FL", 14274), Rate("HI", 13674),
     Rate("MS", 15167), Rate("NE", 14741), Rate("OH", 13607), Rate("OK", 14781),
     Rate("OR", 15100), Rate("VT", 12715), Rate("WY", 15118), Rate("IL", 14417),
     Rate("IN", 14417), Rate("IA", 14417), Rate("KS", 14417), Rate("MI", 14417),
     Rate("MN", 14417), Rate("MO", 14417), Rate("ND", 14417), Rate("SD", 14417),
     Rate("WI", 14417), Rate("CT", 13563), Rate("ME", 13563), Rate("MA", 13563),
     Rate("NH", 13563), Rate("NJ", 13563), Rate("NY", 13563), Rate("PA", 13563),
     Rate("RI", 13563), Rate("AL", 14647), Rate("AR", 14647), Rate("GA", 14647),
     Rate("KY", 14647), Rate("LA", 14647), Rate("NC", 14647), Rate("SC", 14647),
     Rate("TN", 14647), Rate("VA", 14647), Rate("WV", 14647), Rate("NM", 14457),
     Rate("TX", 14457), Rate("AK", 14406), Rate("CA", 14406), Rate("CO", 14406),
     Rate("ID", 14406), Rate("MT", 14406), Rate("NV", 14406), Rate("UT", 14406),
     Rate("WA", 14406), Rate("MD", 13563) >>

STATE_LABOR_RATES ==
  << Rate("AZ", 13878), Rate("DE", 14215), Rate("FL", 14274), Rate("HI", 13674),
     Rate("MS", 15167), Rate("NE", 14741), Rate("OH", 13607), Rate("OK", 14781),
     Rate("OR", 15100), Rate("VT", 12715), Rate("WY", 15118), Rate("IL", 14417),
     Rate("IN", 14417), Rate("IA", 14417), Rate("KS", 14417), Rate("MI", 14417),
     Rate("MN", 14417), Rate("MO", 14417), Rate("ND", 14417), Rate("SD", 14417),
     Rate("WI", 14417), Rate("CT", 13563), Rate("ME", 13563), Rate("MA", 13563),
     Rate("NH", 13563), Rate("NJ", 13563), Rate("NY", 13563), Rate("PA", 13563),
     Rate("RI", 13563), Rate("AL", 14647), Rate("AR", 14647), Rate("GA", 14647),
     Rate("KY", 14647), Rate("LA", 14647), Rate("NC", 14647), Rate("SC", 14647),
     Rate("TN", 14647), Rate("VA", 14647), Rate("WV", 14647), Rate("NM", 14457),
     Rate("TX", 14457), Rate("AK", 14406), Rate("CA", 14406), Rate("CO", 14406),
     Rate("ID", 14406), Rate("MT", 14406), Rate("NV", 14406), Rate("UT", 14406),
     Rate("WA", 14406), Rate("MD", 13563), Rate("DC", 13563) >>

\* table[key]: the entry's rate, or undefined (NoLength) when the key is absent.
Lookup(table, key) ==
  IF \E i \in 1..Len(table) : table[i].state = key
    THEN table[CHOOSE i \in 1..Len(table) : table[i].state = key].rate
    ELSE NoLength

\* Mutant: no `|| NATIONAL_AVERAGE`.
OrElse_NoFallback(x, y) == x

\* x || y on a number-or-undefined x: undefined and 0 are falsy.
OrElse(x, y) == IF x = NoLength \/ x = 0 THEN y ELSE x

NATIONAL_AVERAGE == 14406

\* A city of CITY_COORDINATES: degrees in 1e-7 degree, the rate in cents.
City(name, lat, lon, rate) ==
  [name |-> name, lat |-> lat * 1000, lon |-> 0 - lon * 1000, rate |-> rate]

\* Mutant: the table without its last entry, portland.
CITY_COORDINATES_NoPortland ==
  << City("new york",      407128,  740060, 14000),
     City("los angeles",   340522, 1182437, 14950),
     City("chicago",       418781,  876298, 14700),
     City("houston",       297604,  953698, 14700),
     City("phoenix",       334484, 1120740, 14200),
     City("philadelphia",  399526,  751652, 14000),
     City("san antonio",   294241,  984936, 14700),
     City("san diego",     327157, 1171611, 14950),
     City("dallas",        327767,  967970, 14700),
     City("san jose",      373382, 1218863, 15000),
     City("austin",        302672,  977431, 14700),
     City("jacksonville",  303322,  816557, 14450),
     City("fort worth",    327555,  973308, 14700),
     City("charlotte",     352271,  808431, 14800),
     City("san francisco", 377749, 1224194, 15250),
     City("indianapolis",  397684,  861581, 14700),
     City("columbus",      399612,  829988, 14000),
     City("seattle",       476062, 1223321, 14700),
     City("denver",        397392, 1049903, 14700),
     City("washington dc", 389072,  770369, 14000),
     City("boston",        423601,  710589, 14000),
     City("nashville",     361627,  867816, 14800),
     City("oklahoma city", 354676,  975164, 14800),
     City("las vegas",     361699, 1151398, 14700) >>

\* The entries in insertion order, which is the order Object.entries yields.
\* City(name, lat * 1e4, -lon * 1e4, cents): every longitude is west (negative).
CITY_COORDINATES ==
  << City("new york",      407128,  740060, 14000),
     City("los angeles",   340522, 1182437, 14950),
     City("chicago",       418781,  876298, 14700),
     City("houston",       297604,  953698, 14700),
     City("phoenix",       334484, 1120740, 14200),
     City("philadelphia",  399526,  751652, 14000),
     City("san antonio",   294241,  984936, 14700),
     City("san diego",     327157, 1171611, 14950),
     City("dallas",        327767,  967970, 14700),
     City("san jose",      373382, 1218863, 15000),
     City("austin",        302672,  977431, 14700),
     City("jacksonville",  303322,  816557, 14450),
     City("fort worth",    327555,  973308, 14700),
     City("charlotte",     352271,  808431, 14800),
     City("san francisco", 377749, 1224194, 15250),
     City("indianapolis",  397684,  861581, 14700),
     City("columbus",      399612,  829988, 14000),
     City("seattle",       476062, 1223321, 14700),
     City("denver",        397392, 1049903, 14700),
     City("washington dc", 389072,  770369, 14000),
     City("boston",        423601,  710589, 14000),
     City("nashville",     361627,  867816, 14800),
     City("oklahoma city", 354676,  975164, 14800),
     City("las vegas",     361699, 1151398, 14700),
     City("portland",      455152, 1226784, 15100) >>

(***************************************************************************)
(* src/laborRates.js: calculateDistance (haversine)                        *)
(***************************************************************************)
\* Earth's radius in miles.
R == 3959

\* deg * Math.PI / 180: degrees in 1e-7 degree to radians in fixed point.
ToRadians(deg) == Mul(deg, PI \div 18)

\* x + y and 1 - x on wide values.
AddWide(x, y) ==
  << x[1] + y[1] + ((x[2] + y[2]) \div Scale), (x[2] + y[2]) % Scale >>

OneMinusWide(x) ==
  << Scale - x[1] - (IF x[2] > 0 THEN 1 ELSE 0), (Scale - x[2]) % Scale >>

\* R * c, with c in fixed-point radians: miles in 1e-5 mile.
ArcMiles(c) == (R * (c \div 1000)) + ((R * (c % 1000)) \div 1000)

\* Mutant: the cosine of the first latitude taken twice.
calculateDistance_FirstLatitudeTwice(lat1, lon1, lat2, lon2) ==
  LET dLat     == ToRadians(lat2 - lat1)
      dLon     == ToRadians(lon2 - lon1)
      sinLat   == Abs(Sin(Quot(dLat, 2)))
      sinLon   == Abs(Sin(Quot(dLon, 2)))
      cosCos   == Mul(Cos(ToRadians(lat1)), Cos(ToRadians(lat1)))
      a        == AddWide(MulWide(sinLat, sinLat),
                          MulWide(Abs(Mul(cosCos, sinLon)), sinLon))
      c        == 2 * Atan2(SqrtWide(a), SqrtWide(OneMinusWide(a)))
  IN  IF WideLE(a, <<Scale, 0>>) THEN ArcMiles(c) ELSE 0 - 1

\* NaN as a distance: Math.sqrt of a negative number, carried through
\* Math.atan2 and the product with R.
NaNDistance == 0 - 1

calculateDistance(lat1, lon1, lat2, lon2) ==
  LET dLat     == ToRadians(lat2 - lat1)
      dLon     == ToRadians(lon2 - lon1)
      sinLat   == Abs(Sin(Quot(dLat, 2)))
      sinLon   == Abs(Sin(Quot(dLon, 2)))
      cosCos   == Mul(Cos(ToRadians(lat1)), Cos(ToRadians(lat2)))
      a        == AddWide(MulWide(sinLat, sinLat),
                          MulWide(Abs(Mul(cosCos, sinLon)), sinLon))
      c        == 2 * Atan2(SqrtWide(a), SqrtWide(OneMinusWide(a)))
  IN  IF WideLE(a, <<Scale, 0>>) THEN ArcMiles(c) ELSE NaNDistance

(***************************************************************************)
(* src/laborRates.js: getZipCoordinates                                    *)
(***************************************************************************)
Coord(lat, lon) == [lat |-> lat, lon |-> lon]

\* (zipNum - low) / divisor degrees, in 1e-7 degree.
Offset(k, divisor) == (k * 1000) \div (divisor \div 10000)

\* Mutant: the Texas band begun at 75000, where the state's ZIP range begins.
getZipCoordinates_WiderTexas(chars) ==
  LET zipNum == parseInt(chars)
  IN  IF GE(zipNum, 10000) /\ LE(zipNum, 14999)
        THEN Coord(407000000 + Offset(zipNum.v - 10000, 50000),
                   0 - 740000000 + Offset(zipNum.v - 10000, 100000))
      ELSE IF GE(zipNum, 90000) /\ LE(zipNum, 96999)
        THEN Coord(340000000 + Offset(zipNum.v - 90000, 70000),
                   0 - 1180000000 + Offset(zipNum.v - 90000, 100000))
      ELSE IF GE(zipNum, 60000) /\ LE(zipNum, 69999)
        THEN Coord(418000000 + Offset(zipNum.v - 60000, 100000),
                   0 - 876000000 + Offset(zipNum.v - 60000, 100000))
      ELSE IF GE(zipNum, 75000) /\ LE(zipNum, 79999)
        THEN Coord(297000000 + Offset(zipNum.v - 75000, 30000),
                   0 - 953000000 + Offset(zipNum.v - 75000, 50000))
      ELSE Coord(398000000, 0 - 985000000)

\* Mutant: the upper end of every band exclusive.
getZipCoordinates_ExclusiveEnd(chars) ==
  LET zipNum == parseInt(chars)
  IN  IF GE(zipNum, 10000) /\ LE(zipNum, 14998)
        THEN Coord(407000000 + Offset(zipNum.v - 10000, 50000),
                   0 - 740000000 + Offset(zipNum.v - 10000, 100000))
      ELSE IF GE(zipNum, 90000) /\ LE(zipNum, 96998)
        THEN Coord(340000000 + Offset(zipNum.v - 90000, 70000),
                   0 - 1180000000 + Offset(zipNum.v - 90000, 100000))
      ELSE IF GE(zipNum, 60000) /\ LE(zipNum, 69998)
        THEN Coord(418000000 + Offset(zipNum.v - 60000, 100000),
                   0 - 876000000 + Offset(zipNum.v - 60000, 100000))
      ELSE IF GE(zipNum, 77000) /\ LE(zipNum, 79998)
        THEN Coord(297000000 + Offset(zipNum.v - 77000, 30000),
                   0 - 953000000 + Offset(zipNum.v - 77000, 50000))
      ELSE Coord(398000000, 0 - 985000000)

\* Mutant: the Illinois latitude growing by one degree per 10000 ZIPs.
getZipCoordinates_SteeperIllinois(chars) ==
  LET zipNum == parseInt(chars)
  IN  IF GE(zipNum, 10000) /\ LE(zipNum, 14999)
        THEN Coord(407000000 + Offset(zipNum.v - 10000, 50000),
                   0 - 740000000 + Offset(zipNum.v - 10000, 100000))
      ELSE IF GE(zipNum, 90000) /\ LE(zipNum, 96999)
        THEN Coord(340000000 + Offset(zipNum.v - 90000, 70000),
                   0 - 1180000000 + Offset(zipNum.v - 90000, 100000))
      ELSE IF GE(zipNum, 60000) /\ LE(zipNum, 69999)
        THEN Coord(418000000 + Offset(zipNum.v - 60000, 10000),
                   0 - 876000000 + Offset(zipNum.v - 60000, 100000))
      ELSE IF GE(zipNum, 77000) /\ LE(zipNum, 79999)
        THEN Coord(297000000 + Offset(zipNum.v - 77000, 30000),
                   0 - 953000000 + Offset(zipNum.v - 77000, 50000))
      ELSE Coord(398000000, 0 - 985000000)

getZipCoordinates(chars) ==
  LET zipNum == parseInt(chars)
  IN  IF GE(zipNum, 10000) /\ LE(zipNum, 14999)
        THEN Coord(407000000 + Offset(zipNum.v - 10000, 50000),
                   0 - 740000000 + Offset(zipNum.v - 10000, 100000))
      ELSE IF GE(zipNum, 90000) /\ LE(zipNum, 96999)
        THEN Coord(340000000 + Offset(zipNum.v - 90000, 70000),
                   0 - 1180000000 + Offset(zipNum.v - 90000, 100000))
      ELSE IF GE(zipNum, 60000) /\ LE(zipNum, 69999)
        THEN Coord(418000000 + Offset(zipNum.v - 60000, 100000),
                   0 - 876000000 + Offset(zipNum.v - 60000, 100000))
      ELSE IF GE(zipNum, 77000) /\ LE(zipNum, 79999)
        THEN Coord(297000000 + Offset(zipNum.v - 77000, 30000),
                   0 - 953000000 + Offset(zipNum.v - 77000, 50000))
      ELSE Coord(398000000, 0 - 985000000)


(***************************************************************************)
(* src/laborRates.js: getLaborRate and getLaborMultiplier                  *)
(***************************************************************************)
\* minDistance = Infinity: above every distance on the globe (R * PI miles).
Infinity == 2147483647

\* The metro radius in miles, and in 1e-5 mile.
MetroRadius == 15

MetroRadiusUnits == MetroRadius * 100000

\* distanceToCity: null
NullDistance == 0 - 2

\* nearestCity = null, and { name, distance, rate }.
NoCity == [name |-> JSNull, distance |-> 0, rate |-> 0]

\* Math.round(minDistance * 10) / 10, in tenths of a mile.
RoundTenths(d) == (d + 5000) \div 10000

\* The object returned by both early returns.
NationalAverageResult ==
  [ rate      |-> NATIONAL_AVERAGE,
    source    |-> "National Average",
    breakdown |-> [ baseRate    |-> NATIONAL_AVERAGE,
                    cityPremium |-> 0,
                    nearestCity |-> JSNull ] ]

\* Mutant: a rate half way between the state's and the city's.
MetroResult_Blended(base, city, dist) ==
  [ rate      |-> (base + city.rate) \div 2,
    source    |-> city.name \o " metro area",
    breakdown |-> [ baseRate       |-> base,
                    cityPremium    |-> ((base + city.rate) \div 2) - base,
                    nearestCity    |-> city.name,
                    distanceToCity |-> RoundTenths(dist) ] ]

\* Mutant: the state's rate returned as rate in the metro branch.
MetroResult_StateRate(base, city, dist) ==
  [ rate      |-> base,
    source    |-> city.name \o " metro area",
    breakdown |-> [ baseRate       |-> base,
                    cityPremium    |-> city.rate - base,
                    nearestCity    |-> city.name,
                    distanceToCity |-> RoundTenths(dist) ] ]

\* Mutant: the premium taken as base minus city rate.
MetroResult_PremiumReversed(base, city, dist) ==
  [ rate      |-> city.rate,
    source    |-> city.name \o " metro area",
    breakdown |-> [ baseRate       |-> base,
                    cityPremium    |-> base - city.rate,
                    nearestCity    |-> city.name,
                    distanceToCity |-> RoundTenths(dist) ] ]

\* The object returned when the nearest city is within the metro radius.
MetroResult(base, city, dist) ==
  [ rate      |-> city.rate,
    source    |-> city.name \o " metro area",
    breakdown |-> [ baseRate       |-> base,
                    cityPremium    |-> city.rate - base,
                    nearestCity    |-> city.name,
                    distanceToCity |-> RoundTenths(dist) ] ]

\* The object returned otherwise.
StateResult(st, base, city, dist) ==
  [ rate      |-> base,
    source    |-> st \o " state average",
    breakdown |-> [ baseRate       |-> base,
                    cityPremium    |-> 0,
                    nearestCity    |-> IF city # NoCity THEN city.name ELSE JSNull,
                    distanceToCity |-> IF city # NoCity THEN RoundTenths(dist)
                                       ELSE NullDistance ] ]

\* Mutant: the guard without `!zip ||`.
ZipGuard_NoFalsyCheck(v) ==
  IF ~HasProperties(v) THEN TypeError
  ELSE IF LengthOf(v) # 5 THEN "true"
  ELSE "false"

\* Mutant: `zip.length < 5` in place of `zip.length !== 5`.
ZipGuard_ShorterOnly(v) ==
  IF ~ToBoolean(v) THEN "true"
  ELSE IF ~HasProperties(v) THEN TypeError
  ELSE IF LengthOf(v) < 5 THEN "true"
  ELSE "false"

\* if (!zip || zip.length !== 5): "true", "false", or a TypeError thrown by the
\* property read.
ZipGuard(v) ==
  IF ~ToBoolean(v) THEN "true"
  ELSE IF ~HasProperties(v) THEN TypeError
  ELSE IF LengthOf(v) # 5 THEN "true"
  ELSE "false"

\* Mutant: the distance rounded to one decimal place before the comparison.
WithinMetro_RoundedTenths(city, dist) ==
  city # NoCity /\ RoundTenths(dist) <= MetroRadius * 10

\* Mutant: the distance rounded to whole miles before the comparison.
WithinMetro_Rounded(city, dist) ==
  city # NoCity /\ (dist + 50000) \div 100000 <= MetroRadius

\* if (nearestCity && minDistance <= 15)
WithinMetro(city, dist) == city # NoCity /\ dist <= MetroRadiusUnits

\* Mutant: `<=`, so that the last of several nearest cities is kept.
Closer_OrEqual(distance, dist) == distance <= dist

\* if (distance < minDistance): false when distance is NaN.
Closer(distance, dist) == distance # NaNDistance /\ distance < dist

\* Mutant: the quotient taken the other way round.
Ratio_Inverted(rate) == Div(NATIONAL_AVERAGE, rate)

\* Mutant: an integer division in place of the floating-point one.
Ratio_WholeNumber(rate) == (rate \div NATIONAL_AVERAGE) * Scale

\* rate / NATIONAL_AVERAGE, in fixed point.
Ratio(rate) == Div(rate, NATIONAL_AVERAGE)

(***************************************************************************)
(* State                                                                   *)
(***************************************************************************)
VARIABLES
  op,           \* the exported function that was called
  zip,          \* its argument, a JavaScript value
  stateRates,   \* STATE_LABOR_RATES
  cities,       \* CITY_COORDINATES
  pc,           \* position in the call
  state,        \* getStateFromZip's return value
  baseRate,     \* const baseRate
  zipCoords,    \* const zipCoords
  nearestCity,  \* let nearestCity
  minDistance,  \* let minDistance
  visited,      \* the names of the entries the for-of loop has taken, in order
  reads,        \* the lookups and helper calls made so far
  result,       \* getLaborRate's return value
  multiplier,   \* getLaborMultiplier's return value
  outcome,      \* "running", "returned" or "threw"
  points,       \* the two coordinates passed to a direct calculateDistance call
  miles,        \* calculateDistance's return value in a direct call
  calls,        \* the calls completed before this one, with what they returned
  request,      \* a request's fields and what the catalog holds; loadMake's argument
  response,     \* the response the handler sent
  priceCache,   \* priceCache / cache / makeCache: normalized make -> cached value
  files,        \* the data directory: normalized make -> what <make>.json holds
  sessions      \* the Stripe checkout sessions created so far

tables == <<stateRates, cities>>

\* What lives outside the labor-rate module: the make cache, the data
\* directory and Stripe.
server == <<priceCache, files, sessions>>

\* What a call is made with, and what was answered before it.
call == <<op, zip, points, calls, request>>

locals == <<state, baseRate, zipCoords, nearestCity, minDistance, visited>>

vars == <<op, zip, stateRates, cities, pc, state, baseRate, zipCoords,
          nearestCity, minDistance, visited, reads, result, multiplier, outcome,
          points, miles, calls, request, response, priceCache, files, sessions>>

NoResult == [pending |-> TRUE]

NoCoords == Coord(0, 0)

NoPoints == <<NoCoords, NoCoords>>

NoRequest ==
  [missing |-> {}, vehicle |-> <<>>, catalog |-> "none", data |-> [format |-> "none"]]

NoResponse == [status |-> 0]

\* The v2.2 handler of POST /api/quote, which calls getLaborRate and
\* getLaborMultiplier with the request's zip.
QuoteOp == "POST /api/quote"

\* The v2.4 handlers of POST /api/quote and POST /api/create-checkout-session.
Quote24Op == "POST /api/quote (v2.4)"

CheckoutOp == "POST /api/create-checkout-session"

Handlers == {QuoteOp, Quote24Op, CheckoutOp}

RateOps == {"getLaborRate", "getLaborMultiplier"}

\* No file in the data directory, and nothing cached.
NoFiles == [make \in {} |-> "missing"]

EmptyCache == [make \in {} |-> NoResult]

\* The first call in a freshly started process whose data directory is fs:
\* o(z), o(pq[1], pq[2]), or a handler with the request rq whose body carries
\* zip z.
Serve(fs, o, z, pq, rq, rates, table) ==
  /\ priceCache = EmptyCache
  /\ files = fs
  /\ sessions = {}
  /\ op = o
  /\ zip = z
  /\ points = pq
  /\ miles = 0
  /\ calls = {}
  /\ request = rq
  /\ response = NoResponse
  /\ stateRates = rates
  /\ cities = table
  /\ pc = IF o \in Handlers THEN "handler" ELSE "call"
  /\ state = "undefined"
  /\ baseRate = 0
  /\ zipCoords = NoCoords
  /\ nearestCity = NoCity
  /\ minDistance = Infinity
  /\ visited = <<>>
  /\ reads = {}
  /\ result = NoResult
  /\ multiplier = 0
  /\ outcome = "running"

Enter(o, z, pq, rq, rates, table) == Serve(NoFiles, o, z, pq, rq, rates, table)

StartWith(o, z, pq, rates, table) == Enter(o, z, pq, NoRequest, rates, table)

Start(o, z, rates, table) == StartWith(o, z, NoPoints, rates, table)

(***************************************************************************)
(* Steps                                                                   *)
(***************************************************************************)
\* getLaborRate returns res: to the caller, or into getLaborMultiplier (which
\* the quote handler calls with the same zip).
Return(res) ==
  /\ result' = res
  /\ IF op \in {"getLaborMultiplier", QuoteOp}
       THEN pc' = "multiply" /\ outcome' = outcome
       ELSE pc' = "done" /\ outcome' = "returned"

\* An exception leaves every frame.
Throw ==
  /\ pc' = "done"
  /\ outcome' = "threw"
  /\ result' = result

\* A direct call of getStateFromZip(zip).
StateCall ==
  /\ pc = "call"
  /\ op = "getStateFromZip"
  /\ state' = getStateFromZip(zip)
  /\ reads' = reads \cup {"getStateFromZip"}
  /\ pc' = "done"
  /\ outcome' = IF state' = TypeError THEN "threw" ELSE "returned"
  /\ UNCHANGED <<server, call, miles, response, tables, baseRate, zipCoords, nearestCity, minDistance,
                 visited, result, multiplier>>

\* laborRates.js 152-162
LengthCheck ==
  /\ pc = "call"
  /\ op \in RateOps \cup {QuoteOp}
  /\ CASE ZipGuard(zip) = "true"  -> Return(NationalAverageResult)
       [] ZipGuard(zip) = "false" -> pc' = "state" /\ UNCHANGED <<result, outcome>>
       [] OTHER                   -> Throw
  /\ UNCHANGED <<server, call, miles, response, tables, locals, reads, multiplier>>

\* laborRates.js 165-176
ResolveState ==
  /\ pc = "state"
  /\ state' = getStateFromZip(zip)
  /\ reads' = reads \cup {"getStateFromZip"}
  /\ CASE state' = TypeError -> Throw
       [] state' = JSNull    -> Return(NationalAverageResult)
       [] OTHER              -> pc' = "base" /\ UNCHANGED <<result, outcome>>
  /\ UNCHANGED <<server, call, miles, response, tables, baseRate, zipCoords, nearestCity, minDistance,
                 visited, multiplier>>

\* laborRates.js 179
BaseRate ==
  /\ pc = "base"
  /\ baseRate' = OrElse(Lookup(stateRates, state), NATIONAL_AVERAGE)
  /\ reads' = reads \cup {"STATE_LABOR_RATES"}
  /\ pc' = "coords"
  /\ UNCHANGED <<server, call, miles, response, tables, state, zipCoords, nearestCity, minDistance,
                 visited, result, multiplier, outcome>>

\* Mutant: minDistance kept at module scope, so that line 184 does not run
\* again in a later call.
Coordinates_SharedMinimum ==
  /\ pc = "coords"
  /\ zipCoords' = getZipCoordinates(zip.s)
  /\ nearestCity' = NoCity
  /\ reads' = reads \cup {"getZipCoordinates"}
  /\ pc' = "scan"
  /\ UNCHANGED <<server, call, miles, response, tables, state, baseRate, minDistance, visited, result,
                 multiplier, outcome>>

\* laborRates.js 182-184
Coordinates ==
  /\ pc = "coords"
  /\ zipCoords' = getZipCoordinates(zip.s)
  /\ nearestCity' = NoCity
  /\ minDistance' = Infinity
  /\ reads' = reads \cup {"getZipCoordinates"}
  /\ pc' = "scan"
  /\ UNCHANGED <<server, call, miles, response, tables, state, baseRate, visited, result, multiplier,
                 outcome>>

\* laborRates.js 186-196: one iteration of the for-of loop.
ScanCity ==
  /\ pc = "scan"
  /\ Len(visited) < Len(cities)
  /\ LET cityData == cities[Len(visited) + 1]
         distance == calculateDistance(zipCoords.lat, zipCoords.lon,
                                       cityData.lat, cityData.lon)
     IN  /\ visited' = Append(visited, cityData.name)
         /\ IF Closer(distance, minDistance)
              THEN /\ minDistance' = distance
                   /\ nearestCity' = [name |-> cityData.name, distance |-> distance,
                                      rate |-> cityData.rate]
              ELSE UNCHANGED <<minDistance, nearestCity>>
  /\ reads' = reads \cup {"calculateDistance"}
  /\ UNCHANGED <<server, call, miles, response, tables, pc, state, baseRate, zipCoords, result,
                 multiplier, outcome>>

\* laborRates.js 199-222: the loop is over.
Decide ==
  /\ pc = "scan"
  /\ Len(visited) = Len(cities)
  /\ IF WithinMetro(nearestCity, minDistance)
       THEN Return(MetroResult(baseRate, nearestCity, minDistance))
       ELSE Return(StateResult(state, baseRate, nearestCity, minDistance))
  /\ UNCHANGED <<server, call, miles, response, tables, locals, reads, multiplier>>

\* laborRates.js 231-232
Multiply ==
  /\ pc = "multiply"
  /\ multiplier' = Ratio(result.rate)
  /\ IF op = QuoteOp
       THEN pc' = "respond" /\ outcome' = outcome
       ELSE pc' = "done" /\ outcome' = "returned"
  /\ UNCHANGED <<server, call, miles, response, tables, locals, reads, result>>

\* A direct call of getZipCoordinates(zip): laborRates.js 119-143.
CoordsCall ==
  /\ pc = "call"
  /\ op = "getZipCoordinates"
  /\ zipCoords' = getZipCoordinates(JSToString(zip))
  /\ reads' = reads \cup {"getZipCoordinates"}
  /\ pc' = "done"
  /\ outcome' = "returned"
  /\ UNCHANGED <<server, call, miles, response, tables, state, baseRate, nearestCity, minDistance,
                 visited, result, multiplier>>

\* A direct call of calculateDistance(lat1, lon1, lat2, lon2): laborRates.js 103-112.
DistanceCall ==
  /\ pc = "call"
  /\ op = "calculateDistance"
  /\ miles' = calculateDistance(points[1].lat, points[1].lon,
                                points[2].lat, points[2].lon)
  /\ reads' = reads \cup {"calculateDistance"}
  /\ pc' = "done"
  /\ outcome' = "returned"
  /\ UNCHANGED <<server, call, response, tables, locals, result, multiplier>>

(***************************************************************************)
(* src/server.js, version 2.2: POST /api/quote.  Catalog figures are whole *)
(* dollars.  A request is [missing, catalog, data]: the required fields    *)
(* that are absent or falsy, the fields as sent, the first catalog level   *)
(* that does not exist ("make", "model", "year", "repair") or "found", and *)
(* the catalog entry [format, partsLow, partsHigh, laborLow, laborHigh].   *)
(***************************************************************************)
\* Math.round(multiplier * 1000) / 1000, in thousandths.
RoundThousandths(m) == (m + 50000) \div 100000

\* Mutant: the multiplier rounded to three decimals before it is applied.
RoundProduct_RoundedMultiplier(labor, m) ==
  LET w == MulWide(labor, RoundThousandths(m) * 100000)
  IN  w[1] + (IF 2 * w[2] >= Scale THEN 1 ELSE 0)

\* Math.round(labor * multiplier): halves round up.
RoundProduct(labor, m) ==
  LET w == MulWide(labor, m)
  IN  w[1] + (IF 2 * w[2] >= Scale THEN 1 ELSE 0)

\* Math.round((multiplier - 1) * 100)
RoundPercent(m) == ((m - Scale) + 500000) \div 1000000

\* Math.round((low + high) / 2)
RoundHalf(n) == (n + 1) \div 2

\* laborInfo when the request has no zip: server.js 227-231.
DefaultLaborInfo ==
  [ rate      |-> NATIONAL_AVERAGE,
    source    |-> "National Average",
    breakdown |-> [baseRate |-> NATIONAL_AVERAGE, cityPremium |-> 0] ]

\* res.status(400).json(...): server.js 169-174.
MissingFields ==
  [ status |-> 400, ok |-> FALSE,
    error  |-> "Missing required fields: year, make, model, repairSlug" ]

\* res.json({ok: true, available: false, reason}): server.js 184-245.
Unavailable(reason) ==
  [status |-> 200, ok |-> TRUE, available |-> FALSE, reason |-> reason]

\* Mutant: the model and the year taken in the other order.
NotFound_YearBeforeModel(level) ==
  CASE level = "make"  -> Unavailable("MAKE_NOT_FOUND")
    [] level = "model" -> Unavailable("YEAR_NOT_FOUND")
    [] level = "year"  -> Unavailable("MODEL_NOT_FOUND")
    [] OTHER           -> Unavailable("REPAIR_NOT_FOUND")

NotFound(level) ==
  CASE level = "make"  -> Unavailable("MAKE_NOT_FOUND")
    [] level = "model" -> Unavailable("MODEL_NOT_FOUND")
    [] level = "year"  -> Unavailable("YEAR_NOT_FOUND")
    [] OTHER           -> Unavailable("REPAIR_NOT_FOUND")

\* The three formats of a catalog entry that the handler reads: 239-253.
Formats == {"nested", "array", "flat"}

\* zip || 'Not provided'
NotProvided ==
  JSString(<<"N", "o", "t", " ", "p", "r", "o", "v", "i", "d", "e", "d">>)

\* The response with the price: server.js 263-310.  difference is the whole
\* percentage that the code prints with a sign and "%".
Priced(vehicle, data, m, laborInfo, z) ==
  LET adjustedLaborLow  == RoundProduct(data.laborLow, m)
      adjustedLaborHigh == RoundProduct(data.laborHigh, m)
      adjustedLow       == data.partsLow + adjustedLaborLow
      adjustedHigh      == data.partsHigh + adjustedLaborHigh
  IN  [ status    |-> 200,
        ok        |-> TRUE,
        available |-> TRUE,
        price     |-> [ low     |-> adjustedLow,
                        high    |-> adjustedHigh,
                        average |-> RoundHalf(adjustedLow + adjustedHigh) ],
        breakdown |-> [ parts |-> [low |-> data.partsLow, high |-> data.partsHigh],
                        labor |-> [ low      |-> adjustedLaborLow,
                                    high     |-> adjustedLaborHigh,
                                    baseLow  |-> data.laborLow,
                                    baseHigh |-> data.laborHigh,
                                    baseRate |-> laborInfo.rate,
                                    source   |-> laborInfo.source ] ],
        regionalAdjustment |-> [ multiplier      |-> RoundThousandths(m),
                                 laborRate       |-> laborInfo.rate,
                                 nationalAverage |-> NATIONAL_AVERAGE,
                                 difference      |-> RoundPercent(m),
                                 details         |-> laborInfo.breakdown ],
        vehicle   |-> vehicle,
        location  |-> [ zip    |-> IF ToBoolean(z) THEN z ELSE NotProvided,
                        source |-> laborInfo.source ] ]

\* server.js 165-224: the required fields, then the catalog levels in order.
QuoteValidate ==
  /\ pc = "handler"
  /\ op = QuoteOp
  /\ IF request.missing # {}
       THEN /\ response' = MissingFields
            /\ pc' = "done"
            /\ outcome' = "returned"
            /\ reads' = reads
       ELSE /\ reads' = reads \cup {"loadMake"}
            /\ IF request.catalog # "found"
                 THEN /\ response' = NotFound(request.catalog)
                      /\ pc' = "done"
                      /\ outcome' = "returned"
                 ELSE pc' = "rate" /\ UNCHANGED <<response, outcome>>
  /\ UNCHANGED <<server, call, miles, tables, locals, result, multiplier>>

\* server.js 227-233: zip ? getLaborRate(zip) : {...}, zip ? getLaborMultiplier(zip) : 1.0
QuoteRate ==
  /\ pc = "rate"
  /\ IF ToBoolean(zip)
       THEN pc' = "call" /\ UNCHANGED <<result, multiplier>>
       ELSE pc' = "respond" /\ result' = DefaultLaborInfo /\ multiplier' = Scale
  /\ UNCHANGED <<server, call, miles, response, tables, locals, visited, reads, outcome>>

\* server.js 235-311
QuoteRespond ==
  /\ pc = "respond"
  /\ response' = IF request.data.format \in Formats
                   THEN Priced(request.vehicle, request.data, multiplier, result, zip)
                   ELSE Unavailable("INVALID_FORMAT")
  /\ pc' = "done"
  /\ outcome' = "returned"
  /\ UNCHANGED <<server, call, miles, tables, locals, visited, reads, result, multiplier>>

(***************************************************************************)
(* src/server.js, version 2.4: POST /api/quote and POST                    *)
(* /api/create-checkout-session, both behind validateApiKey.  The data     *)
(* files the handlers read are not part of the sources; a request carries  *)
(* what they hold for it: the first catalog level that does not exist, the *)
(* catalog entry, zipToState[zip] and the laborRates table.                *)
(***************************************************************************)
\* validateApiKey: server.js 426-434.
InvalidApiKey == [status |-> 401, ok |-> FALSE, error |-> "Invalid API key"]

\* res.json({ ok: false, error }): server.js 569-584 and 621.
Failed(error) == [status |-> 200, ok |-> FALSE, error |-> error]

\* zipToState[zip] || 'national'
RegionOf(zipState) == IF zipState = "undefined" THEN "national" ELSE zipState

\* laborRates[state] || laborRates['national'] || 140
LaborRateOf(rates, region) ==
  OrElse(Lookup(rates, region), OrElse(Lookup(rates, "national"), 14000))

\* The response with the price: server.js 586-616.
Priced24(rq, z) ==
  LET region    == RegionOf(rq.zipState)
      laborRate == LaborRateOf(rq.laborRates, region)
      partsLow  == rq.data.partsLow
      partsHigh == rq.data.partsHigh
      laborLow  == rq.data.laborLow
      laborHigh == rq.data.laborHigh
      totalLow  == partsLow + laborLow
      totalHigh == partsHigh + laborHigh
  IN  [ status    |-> 200,
        ok        |-> TRUE,
        available |-> TRUE,
        price     |-> [low |-> totalLow, high |-> totalHigh],
        breakdown |-> [ parts |-> [low |-> partsLow, high |-> partsHigh],
                        labor |-> [ low      |-> laborLow,
                                    high     |-> laborHigh,
                                    baseRate |-> laborRate ] ],
        location  |-> [ zip    |-> z,
                        state  |-> region,
                        source |-> "Identifix 2025 Regional Data" ],
        vehicle   |-> rq.vehicle ]

\* server.js 560-623: the whole handler; it awaits nothing.  make.toLowerCase()
\* and model.toLowerCase() throw on a field that was not sent, inside the try.
Quote24 ==
  /\ pc = "handler"
  /\ op = Quote24Op
  /\ response' =
       CASE ~request.authorized         -> InvalidApiKey
         [] "make" \in request.missing  -> Failed("TypeError")
         [] request.catalog = "make"    -> Failed("Make not found")
         [] "model" \in request.missing -> Failed("TypeError")
         [] request.catalog = "model"   -> Failed("Model not found")
         [] request.catalog = "year"    -> Failed("Year not found")
         [] request.catalog = "repair"  -> Failed("Repair not found")
         [] OTHER                       -> Priced24(request, zip)
  /\ pc' = "done"
  /\ outcome' = "returned"
  /\ UNCHANGED <<server, call, miles, tables, locals, reads, result, multiplier>>

(***************************************************************************)
(* loadMake: the object-cached version 2.2 (src/server.js 55-81) and the   *)
(* Map-cached variants (src/unnamed/part_002 47-74, src/unnamed/part_001   *)
(* 44-67 and the debug build, src/server.js 845-866).  What <make>.json    *)
(* holds is a record [json, id]: unparsable text, the JSON null, an        *)
(* object, an array, or an object wrapped as {data: {...}}; id tells one   *)
(* catalog from another.  The data directory can change under the process. *)
(***************************************************************************)
LoadMakeOp == "loadMake"

ShapeSafeOp == "loadMake (shape-safe)"

LoadMakeJSONOp == "loadMakeJSON"

MapOps == {ShapeSafeOp, LoadMakeJSONOp}

LoadOps == {LoadMakeOp} \cup MapOps

Unparsable == [json |-> "unparsable", id |-> 0]

JSONNull == [json |-> "null", id |-> 0]

Catalog(kind, id) == [json |-> kind, id |-> id]

\* ToBoolean on a parsed JSON value or a cached value.
Truthy(v) == v.json \in {"object", "array", "wrapped"}

\* String.prototype.toLowerCase and trim on the make names of the model.
ToLowerCase(make) ==
  CASE make \in {"toyota", "Toyota", "TOYOTA"} -> "toyota"
    [] make \in {" honda ", " Honda "}         -> " honda "
    [] make \in {"honda", "Honda"}             -> "honda"
    [] OTHER                                   -> make

Trim(make) ==
  CASE make = " honda " -> "honda"
    [] make = " Honda " -> "Honda"
    [] make = "  "      -> ""
    [] OTHER            -> make

\* const normalized = make.toLowerCase() in version 2.2;
\* const key = norm(make), String(v || "").trim().toLowerCase(), in the others.
KeyOf(o, make) == IF o = LoadMakeOp THEN ToLowerCase(make) ELSE ToLowerCase(Trim(make))

key == KeyOf(op, request.make)

\* parsed.data || parsed (2.2), raw.data && typeof raw.data === "object" ?
\* raw.data : raw (shape-safe), or the parsed value as it is (loadMakeJSON).
DataOf(o, parsed) ==
  IF parsed.json = "wrapped" /\ o # LoadMakeJSONOp
    THEN Catalog("object", parsed.id)
    ELSE parsed

\* Mutant: a failed load stored under the key.
Store_Failures(o, cache, k, value) ==
  [make \in DOMAIN cache \cup {k} |-> IF make = k THEN value ELSE cache[make]]

\* priceCache[normalized] = data, which only a successful load reaches (2.2);
\* cache.set(key, value) for data and for null alike (Map).
Store(o, cache, k, value) ==
  IF o = LoadMakeOp /\ value = JSONNull
    THEN cache
    ELSE [make \in DOMAIN cache \cup {k} |-> IF make = k THEN value ELSE cache[make]]

\* Mutant: the Map variants testing the cached value as 2.2 does.
Cached_Truthiness(o, cache, k) ==
  /\ k \in DOMAIN cache
  /\ Truthy(cache[k])

\* if (priceCache[normalized]) in 2.2; cache.has(key) in the Map variants.
Cached(o, cache, k) ==
  /\ k \in DOMAIN cache
  /\ o = LoadMakeOp => Truthy(cache[k])

\* The lookup that opens the function: server.js 56-60, part_002 48-51.
LoadMakeLookup ==
  /\ pc = "call"
  /\ op \in LoadOps
  /\ IF op \in MapOps /\ key = ""
       THEN result' = JSONNull /\ pc' = "done" /\ outcome' = "returned"
       ELSE IF Cached(op, priceCache, key)
         THEN result' = priceCache[key] /\ pc' = "done" /\ outcome' = "returned"
         ELSE pc' = "exists" /\ UNCHANGED <<result, outcome>>
  /\ UNCHANGED <<server, call, miles, response, tables, locals, reads, multiplier>>

\* fs.existsSync: server.js 62-66, part_002 53-57.
LoadMakeExists ==
  /\ pc = "exists"
  /\ reads' = reads \cup {"fs.existsSync"}
  /\ IF key \in DOMAIN files
       THEN pc' = "read" /\ UNCHANGED <<priceCache, result, outcome>>
       ELSE /\ priceCache' = Store(op, priceCache, key, JSONNull)
            /\ result' = JSONNull
            /\ pc' = "done"
            /\ outcome' = "returned"
  /\ UNCHANGED <<files, sessions, call, miles, response, tables, locals, multiplier>>

\* What the try block ends with: the data, or null from the catch block when
\* the file has gone, does not parse, or parses to null (whose .data throws;
\* loadMakeJSON stores the null it parsed).
Loaded(o, fs, k) ==
  IF k \notin DOMAIN fs \/ ~Truthy(fs[k]) THEN JSONNull ELSE DataOf(o, fs[k])

\* fs.readFileSync and JSON.parse: server.js 68-80, part_002 59-73.
LoadMakeRead ==
  /\ pc = "read"
  /\ reads' = reads \cup {"fs.readFileSync"}
  /\ result' = Loaded(op, files, key)
  /\ priceCache' = Store(op, priceCache, key, result')
  /\ pc' = "done"
  /\ outcome' = "returned"
  /\ UNCHANGED <<files, sessions, call, miles, response, tables, locals, multiplier>>

MaxLoads == 3

\* The make names loadMake is called with.
Makes == {"toyota", "Toyota", "honda", " Honda ", ""}

\* The data directory changes: a file is deployed, replaced or removed by
\* something other than the process, at any moment.
FileKeys == {"toyota", "honda"}

Contents ==
  {Unparsable, JSONNull, Catalog("object", 1), Catalog("wrapped", 2), Catalog("array", 3)}

FileChange ==
  /\ op \in LoadOps
  /\ \E k \in FileKeys :
       \/ /\ k \in DOMAIN files
          /\ files' = [make \in DOMAIN files \ {k} |-> files[make]]
       \/ \E content \in Contents :
            /\ IF k \in DOMAIN files THEN files[k] # content ELSE TRUE
            /\ files' = [make \in DOMAIN files \cup {k} |->
                           IF make = k THEN content ELSE files[make]]
  /\ UNCHANGED <<priceCache, sessions, call, miles, response, tables, locals, reads,
                 result, multiplier, pc, outcome>>

\* What a finished loadMake call is remembered by.
Load == [key |-> key, result |-> result]

\* The next loadMake call of the same process.
LoadAgain ==
  /\ pc = "done"
  /\ op \in LoadOps
  /\ calls' = calls \cup {Load}
  /\ Cardinality(calls') <= MaxLoads
  /\ \E make \in Makes : request' = [make |-> make]
  /\ pc' = "call"
  /\ reads' = {}
  /\ result' = NoResult
  /\ outcome' = "running"
  /\ UNCHANGED <<server, op, zip, points, miles, response, tables, locals, multiplier>>

(***************************************************************************)
(* src/server.js, version 2.4: POST /api/create-checkout-session.  The     *)
(* body's vehicle is "undefined", "null", "" (falsy, but with properties), *)
(* "complete" or "without make"; repair is sent or not; quoteData is       *)
(* "undefined", "complete" or "without price".  Stripe answers the create  *)
(* call with a session or with an error.                                   *)
(***************************************************************************)
\* !vehicle, !repair, !quoteData
Falsy(field) == field \in {"undefined", "null", ""}

\* vehicle.year, read outside the try block: a TypeError on undefined and null.
Nullish(field) == field \in {"undefined", "null"}

\* res.status(500).json({ ok: false, error: error.message }): server.js 690-695.
ServerError(message) == [status |-> 500, ok |-> FALSE, error |-> message]

\* What Express makes of an async handler whose promise rejects: version 4
\* leaves the request unanswered, version 5 hands the error to its default
\* error handler.
Unanswered == {NoResponse, [status |-> 500, ok |-> "text/html"]}

\* The console.log of line 633 throws before the try block is entered.
Escapes(rq) == Nullish(rq.vehicle)

\* server.js 635-676, up to the call of stripe.checkout.sessions.create: the
\* error thrown, or "none" when the arguments of the call were built.
Thrown(rq, z) ==
  CASE Falsy(rq.vehicle) \/ Falsy(rq.repair) \/ ~ToBoolean(z) \/ Falsy(rq.quoteData)
                                       -> "Missing required fields"
    [] rq.vehicle = "without make"     -> "TypeError"
    [] rq.quoteData = "without price"  -> "TypeError"
    [] OTHER                           -> "none"

\* server.js 630-676: validateApiKey, then the handler up to its await.
Checkout ==
  /\ pc = "handler"
  /\ op = CheckoutOp
  /\ CASE ~request.authorized ->
            response' = InvalidApiKey /\ pc' = "done" /\ outcome' = "returned"
       [] request.authorized /\ Escapes(request) ->
            response' \in Unanswered /\ pc' = "done" /\ outcome' = "threw"
       [] OTHER ->
            IF Thrown(request, zip) # "none"
              THEN /\ response' = ServerError(Thrown(request, zip))
                   /\ pc' = "done"
                   /\ outcome' = "returned"
              ELSE pc' = "stripe" /\ UNCHANGED <<response, outcome>>
  /\ UNCHANGED <<server, call, miles, tables, locals, reads, result, multiplier>>

\* server.js 640-686: Stripe created the session.
CheckoutCreated ==
  /\ pc = "stripe"
  /\ sessions' = sessions \cup {[vehicle |-> request.vehicle, zip |-> zip]}
  /\ response' = [status |-> 200, ok |-> TRUE, sessionId |-> Cardinality(sessions')]
  /\ pc' = "done"
  /\ outcome' = "returned"
  /\ UNCHANGED <<priceCache, files, call, miles, tables, locals, reads, result, multiplier>>

\* server.js 688-695: the create call failed.
CheckoutFailed ==
  /\ pc = "stripe"
  /\ response' = ServerError("StripeError")
  /\ pc' = "done"
  /\ outcome' = "returned"
  /\ UNCHANGED <<server, call, miles, tables, locals, reads, result, multiplier>>

Next ==
  \/ StateCall
  \/ LengthCheck
  \/ ResolveState
  \/ BaseRate
  \/ Coordinates
  \/ ScanCity
  \/ Decide
  \/ Multiply


(***************************************************************************)
(* Inputs and specifications                                               *)
(***************************************************************************)
\* The number of different answers a sequence of calls may collect.
MaxCalls == 2

\* The longest string drawn from Alphabet.
MaxLen == 6

\* Every SampleStride-th ZIP is resolved, besides the edges of every range.
SampleStride == 4999

\* Digits that reach ranges and coordinate bands (6000 CT, 60000 IL, 66000 KS),
\* white space, and a letter that also spells the hexadecimal prefix 0x.
Alphabet == {"0", "6", " ", "x"}

Strings == UNION { [1..k -> Alphabet] : k \in 0..MaxLen }

\* Further malformed ZIPs: a sign, letters, a hexadecimal numeral, a ZIP+4.
OtherStrings ==
  { <<"-", "6", "0", "0", "0">>, <<"+", "6", "0", "0", "0">>,
    <<"a", "b", "c", "1", "2">>, <<"1", "2", "3", "4", "a">>,
    <<"0", "x", "F", "F", "F">>, <<"1", "0", "0", "0", "1", "-", "1", "2", "3", "4">>,
    <<"9", "0", "2", "1", "0", "-", "1", "2", "3", "4">>, <<"N", "Y">> }

\* The five characters of the ZIP numbered n.
ZipString(n) ==
  << DecDigits[((n \div 10000) % 10) + 1], DecDigits[((n \div 1000) % 10) + 1],
     DecDigits[((n \div 100) % 10) + 1],   DecDigits[((n \div 10) % 10) + 1],
     DecDigits[(n % 10) + 1] >>

ZipNumbers == 0..99999

\* The edges of every range and every coordinate band, their neighbours, the
\* ZIPs the specification names, and a regular sample.
ZipSamples ==
  LET edges == UNION { {ZipRanges[i].low - 1, ZipRanges[i].low, ZipRanges[i].high,
                        ZipRanges[i].high + 1} : i \in 1..Len(ZipRanges) }
      bands == {76999, 77000, 96999, 97000}
      named == {0, 10001, 20105, 22501, 59999, 90210, 91600, 92000, 93000}
      every == {n \in ZipNumbers : n % SampleStride = 0}
  IN  (edges \cup bands \cup named \cup every) \cap ZipNumbers

NonStrings ==
  { JSUndefined, JSNullValue, JSNumber(0), JSNumber(10001), JSBoolean(TRUE),
    JSBoolean(FALSE), JSArray(0), JSArray(5), JSObject }

Malformed == NonStrings \cup {JSString(chars) : chars \in Strings \cup OtherStrings}

Inputs == Malformed \cup {JSString(ZipString(n)) : n \in ZipSamples}

Ops == RateOps \cup {"getStateFromZip"}

\* The resolver over other table contents: states without a rate entry, an
\* empty table, and a second city at new york's coordinates placed after it
\* or before every other entry.
Without(table, removed) == SelectSeq(table, LAMBDA e : e.state \notin removed)

Twin == [name |-> "brooklyn", lat |-> CITY_COORDINATES[1].lat,
         lon |-> CITY_COORDINATES[1].lon, rate |-> 14100]

RateTables ==
  { STATE_LABOR_RATES, Without(STATE_LABOR_RATES, {"NY", "CT", "MT", "CA"}), <<>> }

CityTables ==
  { CITY_COORDINATES, Append(CITY_COORDINATES, Twin), <<Twin>> \o CITY_COORDINATES,
    <<>> }

TableInputs ==
  {JSString(ZipString(n)) :
     n \in {0, 6000, 10001, 14999, 59999, 60000, 68000, 90000, 93000}}

Shipped == stateRates = STATE_LABOR_RATES /\ cities = CITY_COORDINATES

\* The shipped tables with every input, or other tables with a few ZIPs.
Init ==
  \/ \E o \in Ops, z \in Inputs : Start(o, z, STATE_LABOR_RATES, CITY_COORDINATES)
  \/ \E o \in Ops, z \in TableInputs, rates \in RateTables, table \in CityTables :
       Start(o, z, rates, table)

Spec == Init /\ [][Next]_vars

\* getStateFromZip alone, over the whole five-digit ZIP space.
InitZip ==
  \E z \in Malformed \cup {JSString(ZipString(n)) : n \in ZipNumbers} :
    Start("getStateFromZip", z, STATE_LABOR_RATES, CITY_COORDINATES)

NextZip == StateCall

SpecZip == InitZip /\ [][NextZip]_vars

\* getZipCoordinates alone, over the whole five-digit ZIP space.
InitCoords ==
  \E z \in Malformed \cup {JSString(ZipString(n)) : n \in ZipNumbers} :
    Start("getZipCoordinates", z, STATE_LABOR_RATES, CITY_COORDINATES)

NextCoords == CoordsCall

SpecCoords == InitCoords /\ [][NextCoords]_vars

\* calculateDistance alone, over pairs of points: the cities, the coordinates
\* of some ZIPs, the fallback, and points on the equator, at the poles and
\* opposite one another on the globe.  Degrees are 32-bit integers in 1e-7
\* degree, so the two longitudes of a pair are taken at most 200 degrees apart.
Degree == 1000 * 10000

Point(lat, lon, tenths) == Coord(lat * (Degree \div tenths), lon * (Degree \div tenths))

Points ==
  {Coord(CITY_COORDINATES[i].lat, CITY_COORDINATES[i].lon) : i \in 1..Len(CITY_COORDINATES)}
    \cup {getZipCoordinates(ZipString(n)) : n \in {10001, 59999, 60000, 79999, 90210}}
    \cup {Point(0, 0, 1), Point(0, 180, 1), Point(90, 0, 1), Point(0 - 90, 0, 1),
           Point(25, 0, 10), Point(0 - 25, 1800, 10), Point(40, 0 - 100, 1),
           Point(0 - 40, 80, 1), Point(80, 0 - 100, 1), Point(0 - 80, 80, 1),
           Point(12, 0, 1), Point(0 - 12, 180, 1)}

MaxSpan == 200

Pairs ==
  {pq \in Points \X Points :
     Abs((pq[2].lon \div 2) - (pq[1].lon \div 2)) <= (MaxSpan \div 2) * Degree}

InitDistance ==
  \E pq \in Pairs :
    StartWith("calculateDistance", JSUndefined, pq, STATE_LABOR_RATES, CITY_COORDINATES)

NextDistance == DistanceCall

SpecDistance == InitDistance /\ [][NextDistance]_vars

\* Calls one after another on one loaded module.  A call runs to completion
\* before the next begins: every function is synchronous, so the calls of
\* concurrent requests are never interleaved inside one another.
Kind(o, z, pq) == [op |-> o, zip |-> z, points |-> pq]

City1 == Coord(CITY_COORDINATES[1].lat, CITY_COORDINATES[1].lon)

City2 == Coord(CITY_COORDINATES[2].lat, CITY_COORDINATES[2].lon)

CallKinds ==
  {Kind(o, JSString(ZipString(n)), NoPoints) : o \in RateOps, n \in {10001, 59999}}
    \cup {Kind(o, JSString(<<>>), NoPoints) : o \in RateOps}
    \cup {Kind(o, JSString(ZipString(10001)), NoPoints) :
            o \in {"getStateFromZip", "getZipCoordinates"}}
    \cup {Kind(o, JSNullValue, NoPoints) : o \in {"getStateFromZip", "getZipCoordinates"}}
    \cup {Kind("calculateDistance", JSUndefined, <<City1, City2>>)}

\* What the finished call was and what it returned.
Completed ==
  [ op         |-> op,
    zip        |-> zip,
    points     |-> points,
    outcome    |-> outcome,
    state      |-> IF op = "getStateFromZip" THEN state ELSE "undefined",
    coords     |-> IF op = "getZipCoordinates" THEN zipCoords ELSE NoCoords,
    miles      |-> IF op = "calculateDistance" THEN miles ELSE 0,
    result     |-> IF op \in RateOps THEN result ELSE NoResult,
    multiplier |-> IF op = "getLaborMultiplier" THEN multiplier ELSE 0 ]

\* The next call on the same module.  The tables are module state and stay
\* as the calls before left them; so does the storage of the locals, which
\* the declarations at lines 165, 179 and 182-184 set again before any use.
Again ==
  /\ pc = "done"
  /\ calls' = calls \cup {Completed}
  /\ Cardinality(calls') <= MaxCalls
  /\ \E k \in CallKinds : op' = k.op /\ zip' = k.zip /\ points' = k.points
  /\ pc' = "call"
  /\ visited' = <<>>
  /\ reads' = {}
  /\ result' = NoResult
  /\ multiplier' = 0
  /\ miles' = 0
  /\ outcome' = "running"
  /\ UNCHANGED <<server, request, response, tables, state, baseRate, zipCoords,
                 nearestCity, minDistance>>

InitCalls ==
  \E k \in CallKinds :
    StartWith(k.op, k.zip, k.points, STATE_LABOR_RATES, CITY_COORDINATES)

NextCalls ==
  \/ Next
  \/ CoordsCall
  \/ DistanceCall
  \/ Again

SpecCalls == InitCalls /\ [][NextCalls]_vars

\* The quote handler, over requests with and without their required fields,
\* makes the catalog has and has not, catalog entries in every format, and
\* zips that are absent, empty, not strings, malformed and well formed.
Fields == {"year", "make", "model", "repairSlug"}

Sent ==
  [year |-> "2020", make |-> "Toyota", model |-> "Camry", repairSlug |-> "brake-pads"]

Vehicle(missing) == [f \in Fields |-> IF f \in missing THEN "" ELSE Sent[f]]

Entry(format, partsLow, partsHigh, laborLow, laborHigh) ==
  [ format   |-> format,
    partsLow |-> partsLow, partsHigh |-> partsHigh,
    laborLow |-> laborLow, laborHigh |-> laborHigh ]

Entries ==
  {Entry(f, 50, 120, 100, 450) : f \in Formats \cup {"invalid"}}
    \cup {Entry(f, 0, 0, 0, 5000) : f \in Formats}
    \cup {Entry(f, 200, 900, 37, 1999) : f \in Formats}

Request(missing, catalog, data) ==
  [missing |-> missing, vehicle |-> Vehicle(missing), catalog |-> catalog, data |-> data]

Requests ==
  {Request(missing, "found", Entry("nested", 50, 120, 100, 450)) :
     missing \in {{"year"}, {"make", "model"}, {"repairSlug"}}}
    \cup {Request({}, level, Entry("nested", 50, 120, 100, 450)) :
            level \in {"make", "model", "year", "repair"}}
    \cup {Request({}, "found", data) : data \in Entries}

QuoteZips ==
  {JSUndefined, JSNullValue, JSNumber(10001), JSArray(5)}
    \cup {JSString(chars) : chars \in {<<>>, <<"1", "0", "0", "0">>,
                                       <<"a", "b", "c", "1", "2">>}}
    \cup {JSString(ZipString(n)) :
            n \in {0, 5000, 10001, 20105, 37000, 59999, 60601, 90210, 99501}}

InitQuote ==
  \E z \in QuoteZips, rq \in Requests :
    Enter(QuoteOp, z, NoPoints, rq, STATE_LABOR_RATES, CITY_COORDINATES)

NextQuote ==
  \/ QuoteValidate
  \/ QuoteRate
  \/ LengthCheck
  \/ ResolveState
  \/ BaseRate
  \/ Coordinates
  \/ ScanCity
  \/ Decide
  \/ Multiply
  \/ QuoteRespond

SpecQuote == InitQuote /\ [][NextQuote]_vars


\* The v2.4 quote handler, over requests with and without a valid API key,
\* with and without make and model, over catalogs that lack a level, and over
\* laborRates tables with and without the region of the request's zip.
Request24(authorized, missing, catalog, data, zipState, rates) ==
  [ authorized |-> authorized,
    missing    |-> missing,
    vehicle    |-> Vehicle(missing),
    catalog    |-> catalog,
    data       |-> data,
    zipState   |-> zipState,
    laborRates |-> rates ]

LaborRates24 ==
  { << Rate("national", 14406), Rate("NY", 13563), Rate("CA", 17224) >>,
    << Rate("national", 14406) >>,
    << >> }

Entries24 ==
  { Entry("flat", 50, 120, 100, 450), Entry("flat", 0, 0, 0, 5000),
    Entry("flat", 200, 900, 37, 1999) }

Requests24 ==
  {Request24(FALSE, {}, "found", Entry("flat", 50, 120, 100, 450), "NY",
             << Rate("national", 14406) >>)}
    \cup {Request24(TRUE, missing, "found", Entry("flat", 50, 120, 100, 450), "NY",
                    << Rate("national", 14406) >>) :
            missing \in {{"make"}, {"model"}, {"year"}, {"repairSlug"}}}
    \cup {Request24(TRUE, {}, level, Entry("flat", 50, 120, 100, 450), "NY",
                    << Rate("national", 14406) >>) :
            level \in {"make", "model", "year", "repair"}}
    \cup {Request24(TRUE, {}, "found", data, zipState, rates) :
            data \in Entries24, zipState \in {"undefined", "NY", "CA", "TX"},
            rates \in LaborRates24}

InitQuote24 ==
  \E z \in QuoteZips, rq \in Requests24 :
    /\ rq.zipState # "undefined" => z.t = "string" /\ Len(z.s) = 5
    /\ Enter(Quote24Op, z, NoPoints, rq, STATE_LABOR_RATES, CITY_COORDINATES)

NextQuote24 == Quote24

SpecQuote24 == InitQuote24 /\ [][NextQuote24]_vars

\* loadMake, called again and again by one process, over data directories
\* that hold nothing, a file that does not parse, and catalogs in each shape.
FileSystems ==
  UNION { [keys -> Contents] : keys \in SUBSET FileKeys }

InitCache ==
  \E o \in LoadOps, make \in Makes, fs \in FileSystems :
    Serve(fs, o, JSUndefined, NoPoints, [make |-> make], STATE_LABOR_RATES,
          CITY_COORDINATES)

NextCache ==
  \/ LoadMakeLookup
  \/ LoadMakeExists
  \/ LoadMakeRead
  \/ FileChange
  \/ LoadAgain

SpecCache == InitCache /\ [][NextCache]_vars

\* The checkout handler, over bodies with each field sent and not sent.
CheckoutRequest(authorized, vehicle, repair, quoteData) ==
  [authorized |-> authorized, vehicle |-> vehicle, repair |-> repair,
   quoteData |-> quoteData]

CheckoutRequests ==
  { CheckoutRequest(authorized, vehicle, repair, quoteData) :
      authorized \in BOOLEAN,
      vehicle \in {"undefined", "null", "", "complete", "without make"},
      repair \in {"undefined", "", "brake-pads"},
      quoteData \in {"undefined", "complete", "without price"} }

InitCheckout ==
  \E z \in {JSUndefined, JSString(<<>>), JSString(ZipString(10001)), JSNumber(10001)},
     rq \in CheckoutRequests :
    Enter(CheckoutOp, z, NoPoints, rq, STATE_LABOR_RATES, CITY_COORDINATES)

NextCheckout ==
  \/ Checkout
  \/ CheckoutCreated
  \/ CheckoutFailed

SpecCheckout == InitCheckout /\ [][NextCheckout]_vars

\* getStateFromZip over the whole five-digit ZIP space, and getLaborRate over
\* every ZIP that no range contains and over the sampled ZIPs.
Uncovered ==
  ZipNumbers \ UNION {ZipRanges[i].low .. ZipRanges[i].high : i \in 1..Len(ZipRanges)}

InitUnmapped ==
  \/ \E n \in ZipNumbers :
       Start("getStateFromZip", JSString(ZipString(n)), STATE_LABOR_RATES,
             CITY_COORDINATES)
  \/ \E n \in Uncovered \cup ZipSamples :
       Start("getLaborRate", JSString(ZipString(n)), STATE_LABOR_RATES,
             CITY_COORDINATES)

NextUnmapped ==
  \/ StateCall
  \/ LengthCheck
  \/ ResolveState
  \/ BaseRate
  \/ Coordinates
  \/ ScanCity
  \/ Decide

SpecUnmapped == InitUnmapped /\ [][NextUnmapped]_vars

\* getLaborRate over the three coordinate bands that lie around a city:
\* both ends of each band, the ends of the state ranges inside them, and
\* every BandStride-th ZIP between.
BandStride == 20

Bands == (10000..14999) \cup (60000..69999) \cup (77000..79999)

BandZips ==
  {n \in Bands : n % BandStride = 0}
    \cup {10000, 14999, 60000, 62999, 63000, 65999, 66000, 67999, 68000, 69999,
          77000, 79999}

InitBands ==
  \E n \in BandZips :
    Start("getLaborRate", JSString(ZipString(n)), STATE_LABOR_RATES, CITY_COORDINATES)

NextBands ==
  \/ LengthCheck
  \/ ResolveState
  \/ BaseRate
  \/ Coordinates
  \/ ScanCity
  \/ Decide

SpecBands == InitBands /\ [][NextBands]_vars

(***************************************************************************)
(* Properties                                                              *)
(***************************************************************************)
\* The call has produced getLaborRate's return value.
Resolved == op \in RateOps /\ result # NoResult

\* A string of exactly five decimal digits.
AllDigits(chars) == \A i \in 1..Len(chars) : DecimalValue(chars[i]) # NoLength

FiveDigits(v) == v.t = "string" /\ Len(v.s) = 5 /\ AllDigits(v.s)

\* The integer a five-digit string denotes.
ZipValue(chars) ==
  (DecimalValue(chars[1]) * 10000) + (DecimalValue(chars[2]) * 1000)
    + (DecimalValue(chars[3]) * 100) + (DecimalValue(chars[4]) * 10)
    + DecimalValue(chars[5])

\* getStateFromZip resolved a state.
StateKnown == state \notin {"undefined", JSNull, TypeError}

\* The National-Average result, written out.
IsNationalAverage(res) ==
  /\ res.rate = 14406
  /\ res.rate = NATIONAL_AVERAGE
  /\ res.source = "National Average"
  /\ res.breakdown.baseRate = 14406
  /\ res.breakdown.cityPremium = 0
  /\ res.breakdown.nearestCity = JSNull
  /\ DOMAIN res.breakdown = {"baseRate", "cityPremium", "nearestCity"}

\* The call stands at a statement that has a next step.
CanStep ==
  \/ pc \in {"call", "state", "base", "coords", "multiply"}
  \/ pc = "scan" /\ Len(visited) <= Len(cities)

\* C1: getLaborRate and getLaborMultiplier are total: no input makes a call
\* throw, every call that has not returned stands at a statement with a next
\* step, and a finished call has returned a record with a positive numeric
\* rate (and getLaborMultiplier a positive number).
C1_Total ==
  op \in RateOps =>
    /\ outcome # "threw"
    /\ pc # "done" => CanStep
    /\ pc = "done" =>
         /\ outcome = "returned"
         /\ result.rate \in Nat /\ result.rate > 0
         /\ result.source # ""
         /\ op = "getLaborMultiplier" => multiplier \in Nat /\ multiplier > 0

\* C1 witness: getLaborMultiplier(undefined) and getLaborRate of a
\* non-numeric five-character string have returned.
C1_Witness ==
  /\ pc = "done"
  /\ outcome = "returned"
  /\ \/ op = "getLaborMultiplier" /\ zip = JSUndefined /\ multiplier = Scale
     \/ op = "getLaborRate" /\ zip = JSString(<<"a", "b", "c", "1", "2">>)

C3_MalformedIsNationalAverage ==
  (Resolved /\ ~FiveDigits(zip)) => result.source = "National Average"


\* The state's entry in the rate table, or the national average without one.
HasRate(table, st) == \E i \in 1..Len(table) : table[i].state = st

RateOf(table, st) ==
  IF HasRate(table, st)
    THEN table[CHOOSE i \in 1..Len(table) : table[i].state = st].rate
    ELSE NATIONAL_AVERAGE

\* The distance from coords to every entry of the city table, as a sequence.
RECURSIVE DistancesFrom(_, _, _)
DistancesFrom(table, coords, d) ==
  IF Len(d) = Len(table) THEN d
  ELSE DistancesFrom(table, coords,
         Append(d, calculateDistance(coords.lat, coords.lon,
                                     table[Len(d) + 1].lat, table[Len(d) + 1].lon)))

Distances(table, coords) == DistancesFrom(table, coords, <<>>)

\* The first position of the least distance.
FirstNearest(d) ==
  CHOOSE k \in DOMAIN d :
    /\ \A i \in DOMAIN d : d[k] <= d[i]
    /\ \A j \in DOMAIN d : j < k => d[j] > d[k]

\* C4: with a known state and the nearest city at most 15 miles away, the
\* result carries that city's metro rate, source '<city> metro area', the
\* state's rate as baseRate, cityPremium = city rate - baseRate (negative for
\* a city below the state rate), and the city's name and rounded distance.
C4_MetroResult ==
  (Resolved /\ StateKnown /\ nearestCity # NoCity
     /\ minDistance <= MetroRadius * 100000) =>
    /\ \E i \in 1..Len(cities) :
         cities[i].name = nearestCity.name /\ cities[i].rate = result.rate
    /\ result.source = nearestCity.name \o " metro area"
    /\ result.breakdown.baseRate = RateOf(stateRates, state)
    /\ result.breakdown.cityPremium = result.rate - RateOf(stateRates, state)
    /\ result.breakdown.nearestCity = nearestCity.name
    /\ result.breakdown.distanceToCity = (minDistance + 5000) \div 10000
    /\ result.breakdown.distanceToCity <= MetroRadius * 10

\* C4 witness: a Nebraska ZIP in the chicago band has returned the chicago
\* metro rate, which is below Nebraska's rate.
C4_Witness ==
  /\ Shipped
  /\ Resolved
  /\ pc = "done"
  /\ state = "NE"
  /\ result.rate = 14700
  /\ result.source = "chicago metro area"
  /\ result.breakdown.baseRate = 14741
  /\ result.breakdown.cityPremium = 0 - 41

\* C5: with a known state and the nearest city more than 15 miles away, the
\* result carries the state's rate as rate and baseRate, source
\* '<state> state average', cityPremium 0, and still the nearest city's name
\* and rounded distance.
C5_StateResult ==
  (Resolved /\ StateKnown /\ nearestCity # NoCity
     /\ minDistance > MetroRadius * 100000) =>
    /\ result.rate = RateOf(stateRates, state)
    /\ result.source = state \o " state average"
    /\ result.breakdown.baseRate = result.rate
    /\ result.breakdown.cityPremium = 0
    /\ result.breakdown.nearestCity = nearestCity.name
    /\ result.breakdown.nearestCity # JSNull
    /\ result.breakdown.distanceToCity = (minDistance + 5000) \div 10000
    /\ result.breakdown.distanceToCity >= MetroRadius * 10

\* C5 witness: getLaborRate("59999") has returned Montana's state average and
\* names a nearest city; so has a California ZIP just outside the radius.
C5_Witness ==
  /\ Shipped
  /\ op = "getLaborRate"
  /\ pc = "done"
  /\ \/ /\ zip = JSString(<<"5", "9", "9", "9", "9">>)
        /\ result.source = "MT state average"
        /\ result.rate = 14406
        /\ result.breakdown.nearestCity # JSNull
     \/ /\ zip = JSString(<<"9", "1", "6", "0", "0">>)
        /\ result.source = "CA state average"
        /\ result.breakdown.nearestCity = "los angeles"
        /\ result.breakdown.distanceToCity = 150

\* With d the distances to the entries: minDistance is the least of them and
\* nearestCity, as kept and as reported, is the first entry at that distance.
NearestIs(d) ==
  /\ minDistance = d[FirstNearest(d)]
  /\ \A i \in 1..Len(cities) : d[i] >= minDistance
  /\ nearestCity.name = cities[FirstNearest(d)].name
  /\ nearestCity.rate = cities[FirstNearest(d)].rate
  /\ result.breakdown.nearestCity = cities[FirstNearest(d)].name

\* C6: the loop takes the entries of the city table one by one in table
\* order; when it is over it has taken every entry, minDistance is the least
\* distance to any entry, and nearestCity is the first entry at that distance.
C6_NearestCity ==
  /\ Len(visited) <= Len(cities)
  /\ \A i \in 1..Len(visited) : visited[i] = cities[i].name
  /\ (Resolved /\ StateKnown) =>
       /\ Len(visited) = Len(cities)
       /\ cities = <<>> => nearestCity = NoCity
       /\ cities # <<>> =>
            NearestIs(Distances(cities, zipCoords))

\* C6 witness: with a second city at new york's coordinates placed last, the
\* scan for "10001" is over, both are at the least distance and new york, the
\* first of them, is reported.
C6_Witness ==
  /\ Resolved
  /\ cities = Append(CITY_COORDINATES, Twin)
  /\ zip = JSString(<<"1", "0", "0", "0", "1">>)
  /\ pc = "done"
  /\ Len(visited) = Len(CITY_COORDINATES) + 1
  /\ calculateDistance(zipCoords.lat, zipCoords.lon, Twin.lat, Twin.lon) = minDistance
  /\ result.breakdown.nearestCity = "new york"

\* The positions of the ranges that contain the integer n, bounds included.
Containing(ranges, n) ==
  {i \in 1..Len(ranges) : ranges[i].low <= n /\ n <= ranges[i].high}

\* The state of the first range of the table that contains n, or null.
FirstContaining(ranges, n) ==
  LET hits == Containing(ranges, n)
  IN  IF hits = {} THEN JSNull
      ELSE ranges[CHOOSE i \in hits : \A j \in hits : i <= j].state

StateCalled == op = "getStateFromZip" /\ pc = "done"

\* C7: for every five-digit ZIP getStateFromZip returns the state of the first
\* range, bounds included, that contains its integer; both Virginia ranges
\* 20100-20199 and 22000-24699 return VA.
C7_FirstRange ==
  (StateCalled /\ FiveDigits(zip)) =>
    /\ outcome = "returned"
    /\ state = FirstContaining(ZipRanges, ZipValue(zip.s))
    /\ ZipValue(zip.s) \in (20100..20199) \cup (22000..24699) => state = "VA"

\* C7 witness: getStateFromZip("20105") and getStateFromZip("24699") have
\* returned VA.
C7_Witness ==
  /\ StateCalled
  /\ zip \in {JSString(<<"2", "0", "1", "0", "5">>), JSString(<<"2", "4", "6", "9", "9">>)}
  /\ state = "VA"

\* The first five characters start with a number: after white space and at
\* most one sign comes a decimal digit.
StartsWithNumber(chars) ==
  LET prefix   == Substring(chars, 0, 5)
      trimmed  == SkipWhiteSpace(prefix)
      unsigned == IF trimmed # <<>> /\ Head(trimmed) \in {"-", "+"}
                    THEN Tail(trimmed) ELSE trimmed
  IN  unsigned # <<>> /\ DecimalValue(Head(unsigned)) # NoLength

\* C8: getStateFromZip returns null, and does not throw, for null, undefined,
\* the empty string, every value that is not a string, and every string whose
\* first five characters do not start with a number.
C8_NullForNonNumeric ==
  (StateCalled /\ (zip.t # "string" \/ ~StartsWithNumber(zip.s))) =>
    /\ outcome = "returned"
    /\ state = JSNull

\* C8 witness: getStateFromZip has returned null for "abc12", for the number
\* 10001 and for an array of five elements.
C8_Witness ==
  /\ StateCalled
  /\ outcome = "returned"
  /\ state = JSNull
  /\ zip \in {JSString(<<"a", "b", "c", "1", "2">>), JSNumber(10001), JSArray(5)}

\* The table in the reverse order.
RECURSIVE Reverse(_)
Reverse(seq) == IF seq = <<>> THEN <<>> ELSE Append(Reverse(Tail(seq)), Head(seq))

ReversedRanges == Reverse(ZipRanges)

\* At most one range contains the integer, every range that does carries the
\* state returned, and null is returned when none does.
AgreeOn(ranges, hits) ==
  /\ Cardinality(hits) <= 1
  /\ \A i \in hits : ranges[i].state = state
  /\ hits = {} => state = JSNull

\* C9: no integer of the five-digit ZIP space lies in two ranges of the table,
\* so every range that contains a ZIP's integer carries the state returned and
\* the checks return the same state taken in the reverse order.
C9_NoOverlap ==
  (StateCalled /\ FiveDigits(zip)) =>
    /\ AgreeOn(ZipRanges, Containing(ZipRanges, ZipValue(zip.s)))
    /\ state = ScanRanges(Number(ZipValue(zip.s)), ReversedRanges, 1)

\* C9 witness: "37000", the first ZIP after Alabama's last (36999), has
\* returned TN, the one range that contains it.
C9_Witness ==
  /\ StateCalled
  /\ zip = JSString(<<"3", "7", "0", "0", "0">>)
  /\ state = "TN"
  /\ Cardinality(Containing(ZipRanges, 37000)) = 1

\* C10: when the state returned has no entry in the rate table, the call does
\* not fail: baseRate is NATIONAL_AVERAGE, every city is scanned, and the
\* result is the nearest city's metro result or the state-average result,
\* each with the national average as baseRate.
C10_UnmappedState ==
  (op \in RateOps /\ StateKnown /\ ~HasRate(stateRates, state)) =>
    /\ outcome # "threw"
    /\ pc \notin {"call", "state", "base"} => baseRate = NATIONAL_AVERAGE
    /\ Resolved =>
         /\ Len(visited) = Len(cities)
         /\ result.breakdown.baseRate = 14406
         /\ result.rate = IF nearestCity # NoCity /\ minDistance <= MetroRadius * 100000
                            THEN nearestCity.rate ELSE 14406
         /\ result.breakdown.cityPremium = result.rate - 14406
         /\ result.source = IF nearestCity # NoCity /\ minDistance <= MetroRadius * 100000
                              THEN nearestCity.name \o " metro area"
                              ELSE state \o " state average"

\* C10 witness: with no NY entry in the rate table, getLaborRate("10001") has
\* returned the new york metro result with the national average as baseRate.
C10_Witness ==
  /\ ~HasRate(stateRates, "NY")
  /\ cities = CITY_COORDINATES
  /\ op = "getLaborRate"
  /\ pc = "done"
  /\ state = "NY"
  /\ result.source = "new york metro area"
  /\ result.breakdown.baseRate = 14406
  /\ result.breakdown.cityPremium = 14000 - 14406

\* m is the fixed-point quotient rate / NATIONAL_AVERAGE: the largest m with
\* m * NATIONAL_AVERAGE <= rate * Scale.
IsQuotient(m, rate) ==
  /\ WideLE(MulWide(m, 14406), <<rate, 0>>)
  /\ ~WideLE(MulWide(m + 1, 14406), <<rate, 0>>)

\* C11: the value getLaborMultiplier(zip) returns is rate / NATIONAL_AVERAGE
\* for the rate of the getLaborRate result computed in the same call for the
\* same zip, and it is exactly 1.0 whenever that result is the
\* National-Average result.
C11_Multiplier ==
  (op = "getLaborMultiplier" /\ pc = "done") =>
    /\ Resolved
    /\ IsQuotient(multiplier, result.rate)
    /\ IsNationalAverage(result) => multiplier = Scale
    /\ result.rate = 14406 => multiplier = Scale

\* C11 witness: getLaborMultiplier("10001") has returned 140 / 144.06, and
\* the result it was computed from is the new york metro result.
C11_Witness ==
  /\ Shipped
  /\ op = "getLaborMultiplier"
  /\ pc = "done"
  /\ zip = JSString(<<"1", "0", "0", "0", "1">>)
  /\ result.rate = 14000
  /\ multiplier = 97181729
  /\ multiplier # Scale

\* C12: every rate of both tables and NATIONAL_AVERAGE are strictly positive,
\* so every rate getLaborRate returns is, and getLaborMultiplier returns a
\* strictly positive number for every input.
C12_Positive ==
  /\ NATIONAL_AVERAGE > 0
  /\ \A i \in 1..Len(stateRates) : stateRates[i].rate > 0
  /\ \A i \in 1..Len(cities) : cities[i].rate > 0
  /\ Resolved => result.rate > 0
  /\ (op = "getLaborMultiplier" /\ pc = "done") => multiplier > 0

\* C12 witness: getLaborMultiplier("05000") has returned a positive number
\* below 1 for Vermont, the lowest rate of the state table.
C12_Witness ==
  /\ Shipped
  /\ op = "getLaborMultiplier"
  /\ pc = "done"
  /\ state = "VT"
  /\ result.rate = 12715
  /\ multiplier > 0
  /\ multiplier < Scale

\* An earlier call of the same function with the same arguments.
Earlier(c) == c.op = op /\ c.zip = zip /\ c.points = points

SameAnswer == pc = "done" => \A c \in calls : Earlier(c) => c = Completed

\* C13: no step of getStateFromZip, getZipCoordinates, calculateDistance,
\* getLaborRate or getLaborMultiplier changes STATE_LABOR_RATES or
\* CITY_COORDINATES, and in every sequence of calls a call returns exactly what
\* the first call of that function with those arguments returned.
C13_NoSharedState ==
  /\ []SameAnswer
  /\ [][stateRates' = stateRates /\ cities' = cities]_vars

\* C13 witness: getLaborRate("10001") has returned a second time, after
\* another call, with the new york metro result it returned before.
C13_Witness ==
  /\ pc = "done"
  /\ op = "getLaborRate"
  /\ zip = JSString(<<"1", "0", "0", "0", "1">>)
  /\ result.source = "new york metro area"
  /\ Completed \in calls
  /\ Cardinality(calls) = 2

\* C14: the shipped tables hold 52 ZIP ranges and 51 states, both within 60,
\* and 25 cities, so that a call scans up to 25 cities.
C14_TableSizes ==
  /\ Len(ZipRanges) = 52 /\ Len(ZipRanges) <= 60
  /\ Len(stateRates) = 51 /\ Len(stateRates) <= 60
  /\ Len(cities) = 25
  /\ Len(visited) <= 25

\* C14 as stated: at most 60 ZIP ranges, 60 states and 24 cities.
C14_SizesAsStated ==
  /\ Len(ZipRanges) <= 60
  /\ Len(stateRates) <= 60
  /\ Len(cities) <= 24

\* C14 witness: a getLaborRate call has scanned a twenty-fifth city.
C14_Witness ==
  /\ op = "getLaborRate"
  /\ pc = "done"
  /\ cities = CITY_COORDINATES
  /\ Len(visited) = 25
  /\ visited[25] = "portland"

\* The string holds a number for parseInt: after white space and at most one
\* sign comes a decimal digit.
ParsesToNumber(chars) ==
  LET trimmed  == SkipWhiteSpace(chars)
      unsigned == IF trimmed # <<>> /\ Head(trimmed) \in {"-", "+"}
                    THEN Tail(trimmed) ELSE trimmed
  IN  unsigned # <<>> /\ DecimalValue(Head(unsigned)) # NoLength

\* x is base + k / (tenThousands * 10000) degrees, cut to 1e-7 degree.
Linear(x, base, k, tenThousands) ==
  /\ tenThousands * (x - base) <= k * 1000
  /\ tenThousands * (x - base + 1) > k * 1000

FallbackCoord == Coord(398000000, 0 - 985000000)

\* c is the coordinate of the ZIP numbered n: its band's base point plus the
\* linear offsets, or the fallback outside the four bands.
CoordinateOf(n, c) ==
  CASE n >= 10000 /\ n <= 14999 ->
         /\ Linear(c.lat, 407000000, n - 10000, 5)
         /\ Linear(c.lon, 0 - 740000000, n - 10000, 10)
    [] n >= 90000 /\ n <= 96999 ->
         /\ Linear(c.lat, 340000000, n - 90000, 7)
         /\ Linear(c.lon, 0 - 1180000000, n - 90000, 10)
    [] n >= 60000 /\ n <= 69999 ->
         /\ Linear(c.lat, 418000000, n - 60000, 10)
         /\ Linear(c.lon, 0 - 876000000, n - 60000, 10)
    [] n >= 77000 /\ n <= 79999 ->
         /\ Linear(c.lat, 297000000, n - 77000, 3)
         /\ Linear(c.lon, 0 - 953000000, n - 77000, 5)
    [] OTHER -> c = FallbackCoord

\* C15: getZipCoordinates never throws and always returns numeric lat and lon:
\* for a ZIP in a band the band's base point plus offsets linear in
\* (zip - band low), for every other five-digit ZIP and for every input that
\* holds no number the fallback (39.8, -98.5).
C15_Coordinates ==
  (op = "getZipCoordinates" /\ pc = "done") =>
    /\ outcome = "returned"
    /\ zipCoords.lat \in Int /\ zipCoords.lon \in Int
    /\ FiveDigits(zip) => CoordinateOf(ZipValue(zip.s), zipCoords)
    /\ zip.t = "number" => CoordinateOf(zip.n, zipCoords)
    /\ (zip.t = "string" /\ ~ParsesToNumber(zip.s)) => zipCoords = FallbackCoord
    /\ zip.t \notin {"string", "number"} => zipCoords = FallbackCoord

\* C15 witness: getZipCoordinates("90210") has returned 34 + 210 / 70000,
\* -118 + 210 / 100000.
C15_Witness ==
  /\ op = "getZipCoordinates"
  /\ pc = "done"
  /\ zip = JSString(<<"9", "0", "2", "1", "0">>)
  /\ zipCoords = Coord(340030000, 0 - 1179979000)

\* A direct call of calculateDistance has returned.
DistanceCalled == op = "calculateDistance" /\ pc = "done"

C17_ZeroAndNonNegative ==
  DistanceCalled =>
    /\ points[1] = points[2] => miles = 0
    /\ miles # NaNDistance
    /\ miles >= 0

\* C18: with the shipped tables getLaborRate("10001") resolves NY, finds
\* 'new york' nearest at no more than 15 miles, and returns the metro result:
\* rate 140, source 'new york metro area', baseRate 135.63.
C18_Manhattan ==
  (Shipped /\ op = "getLaborRate" /\ pc = "done"
     /\ zip = JSString(<<"1", "0", "0", "0", "1">>)) =>
    /\ outcome = "returned"
    /\ state = "NY"
    /\ nearestCity.name = "new york"
    /\ minDistance <= 15 * 100000
    /\ result.rate = 14000
    /\ result.source = "new york metro area"
    /\ result.breakdown.baseRate = 13563
    /\ result.breakdown.cityPremium = 14000 - 13563
    /\ result.breakdown.nearestCity = "new york"

\* C18 witness: that call has returned, new york being less than a mile away.
C18_Witness ==
  /\ Shipped
  /\ op = "getLaborRate"
  /\ pc = "done"
  /\ zip = JSString(<<"1", "0", "0", "0", "1">>)
  /\ result.source = "new york metro area"
  /\ result.breakdown.distanceToCity = 9

\* The ZIP number lies in one of the four coordinate bands.
InBand(n) ==
  \/ n >= 10000 /\ n <= 14999
  \/ n >= 90000 /\ n <= 96999
  \/ n >= 60000 /\ n <= 69999
  \/ n >= 77000 /\ n <= 79999

\* Every city of the table is more than 15 miles from the coordinate.
FarFromEveryCity(table, coords) ==
  LET d == Distances(table, coords)
  IN  \A i \in DOMAIN d : d[i] > 15 * 100000

\* C19: with the shipped tables a five-digit ZIP that resolves to a state and
\* lies outside the four bands is placed at the fallback coordinate, which is
\* more than 15 miles from every city, and gets the state-average result:
\* the state's rate, cityPremium 0, source '<state> state average'.
C19_OutsideBands ==
  (Shipped /\ Resolved /\ StateKnown /\ FiveDigits(zip) /\ ~InBand(ZipValue(zip.s))) =>
    /\ zipCoords = Coord(398000000, 0 - 985000000)
    /\ FarFromEveryCity(cities, zipCoords)
    /\ minDistance > 15 * 100000
    /\ HasRate(STATE_LABOR_RATES, state)
    /\ result.rate = Lookup(STATE_LABOR_RATES, state)
    /\ result.breakdown.baseRate = result.rate
    /\ result.breakdown.cityPremium = 0
    /\ result.source = state \o " state average"

\* C19 witness: getLaborRate("59999") has returned Montana's state average,
\* 144.06, from the fallback coordinate.
C19_Witness ==
  /\ Shipped
  /\ op = "getLaborRate"
  /\ pc = "done"
  /\ zip = JSString(<<"5", "9", "9", "9", "9">>)
  /\ state = "MT"
  /\ zipCoords = Coord(398000000, 0 - 985000000)
  /\ result.rate = 14406
  /\ result.source = "MT state average"
  /\ result.breakdown.cityPremium = 0

\* The handler has answered with a price.
PricedResponse ==
  /\ op = QuoteOp
  /\ pc = "done"
  /\ response.status = 200
  /\ response.available

\* adjusted is labor * rate / NATIONAL_AVERAGE rounded to the nearest whole
\* number, the multiplier taken unrounded.
IsRoundedProduct(adjusted, labor, rate) ==
  2 * Abs((adjusted * 14406) - (labor * rate)) <= 14406

\* thousandths is m (in 1e-8) rounded to three decimals.
IsThousandths(thousandths, m) ==
  2 * Abs((thousandths * 100000) - m) <= 100000

\* C20: in the v2.2 quote handler the adjusted labor figures are the catalog
\* labor figures times the unrounded multiplier, rounded after the product;
\* the parts figures are returned as the catalog has them; price.low and
\* price.high are parts plus adjusted labor; and the multiplier rounded to
\* three decimals is what regionalAdjustment carries, no price being
\* computed from it.
C20_QuotePricing ==
  PricedResponse =>
    LET data  == request.data
        labor == response.breakdown.labor
        parts == response.breakdown.parts
        rate  == IF ToBoolean(zip) THEN result.rate ELSE 14406
    IN  /\ ToBoolean(zip) => IsQuotient(multiplier, rate)
        /\ ~ToBoolean(zip) => multiplier = Scale
        /\ IsRoundedProduct(labor.low, data.laborLow, rate)
        /\ IsRoundedProduct(labor.high, data.laborHigh, rate)
        /\ labor.baseLow = data.laborLow
        /\ labor.baseHigh = data.laborHigh
        /\ parts.low = data.partsLow
        /\ parts.high = data.partsHigh
        /\ response.price.low = data.partsLow + labor.low
        /\ response.price.high = data.partsHigh + labor.high
        /\ IsThousandths(response.regionalAdjustment.multiplier, multiplier)

\* C20 witness: a quote for zip "10001" (140 / 144.06 = 0.97181...) on an entry
\* with labor 0 to 5000 and no parts: the labor high is 4859, where the
\* multiplier rounded to 0.972 would have given 4860.
C20_Witness ==
  /\ PricedResponse
  /\ zip = JSString(<<"1", "0", "0", "0", "1">>)
  /\ request.data.laborHigh = 5000
  /\ response.breakdown.labor.high = 4859
  /\ response.price.high = 4859
  /\ response.price.low = 0
  /\ response.regionalAdjustment.multiplier = 972

\* The v2.4 quote handler has answered with a price.
PricedResponse24 ==
  /\ op = Quote24Op
  /\ pc = "done"
  /\ response.ok
  /\ response.status = 200

\* adjusted is labor * rate / base rounded to the nearest whole number.
IsAdjusted(adjusted, labor, rate, base) ==
  2 * Abs((adjusted * base) - (labor * rate)) <= base

\* C21: the v2.4 quote handler returns labor low/high multiplied by the
\* region's labor rate over the national one (the rate its own table has for
\* 'national', or 140), and price low/high that are parts plus that labor.
C21_RegionalLabor ==
  PricedResponse24 =>
    LET data     == request.data
        labor    == response.breakdown.labor
        national == LaborRateOf(request.laborRates, "national")
    IN  /\ labor.baseRate =
             LaborRateOf(request.laborRates, RegionOf(request.zipState))
        /\ IsAdjusted(labor.low, data.laborLow, labor.baseRate, national)
        /\ IsAdjusted(labor.high, data.laborHigh, labor.baseRate, national)
        /\ response.price.low = data.partsLow + labor.low
        /\ response.price.high = data.partsHigh + labor.high

\* The v2.2 quote handler has ended.
QuoteAnswered == op = QuoteOp /\ pc = "done" /\ outcome = "returned"

\* No labor rate was resolved and no multiplier computed.
NoResolution ==
  /\ result = NoResult
  /\ multiplier = 0
  /\ reads \cap {"getStateFromZip", "STATE_LABOR_RATES", "getZipCoordinates"} = {}

\* The reason the catalog's first missing level is answered with.
ReasonFor(level) ==
  CASE level = "make"   -> "MAKE_NOT_FOUND"
    [] level = "model"  -> "MODEL_NOT_FOUND"
    [] level = "year"   -> "YEAR_NOT_FOUND"
    [] level = "repair" -> "REPAIR_NOT_FOUND"

\* C22: the v2.2 quote handler answers a request without year, make, model or
\* repairSlug with HTTP 400 before any catalog lookup; otherwise it answers
\* the first catalog level that is missing, in the order make, model, year,
\* repair, with its reason and available false; a price and a labor-rate
\* resolution exist only when all four levels exist; and a request without
\* zip is priced at the national average with multiplier 1.0.
C22_ValidationOrder ==
  /\ (op = QuoteOp /\ request.missing # {}) =>
       /\ "loadMake" \notin reads
       /\ NoResolution
       /\ pc = "done" => (response.status = 400 /\ ~response.ok)
  /\ (op = QuoteOp /\ request.missing = {} /\ request.catalog # "found") =>
       /\ NoResolution
       /\ pc = "done" =>
            /\ "loadMake" \in reads
            /\ response.status = 200
            /\ response.ok
            /\ ~response.available
            /\ response.reason = ReasonFor(request.catalog)
  /\ (QuoteAnswered /\ response.status = 200 /\ response.available) =>
       /\ request.missing = {}
       /\ request.catalog = "found"
  /\ (QuoteAnswered /\ request.missing = {} /\ request.catalog = "found"
        /\ request.data.format \in Formats /\ ~ToBoolean(zip)) =>
       /\ response.status = 200
       /\ response.available
       /\ multiplier = Scale
       /\ response.regionalAdjustment.multiplier = 1000
       /\ response.regionalAdjustment.laborRate = 14406
       /\ response.breakdown.labor.source = "National Average"
       /\ response.breakdown.labor.low = request.data.laborLow
       /\ reads = {"loadMake"}

\* C22 witness: a request whose make and model exist but whose year does not
\* has been answered YEAR_NOT_FOUND after the catalog lookup, without a rate.
C22_Witness ==
  /\ QuoteAnswered
  /\ request.missing = {}
  /\ request.catalog = "year"
  /\ response.reason = "YEAR_NOT_FOUND"
  /\ "loadMake" \in reads
  /\ result = NoResult

\* A step of the 2.2 loadMake itself, not of the data directory.
LoadMakeStep ==
  /\ op = LoadMakeOp
  /\ files' = files
  /\ pc \in {"call", "exists", "read"}
  /\ pc' # pc

\* The file of the key is there and parses to a catalog.
Loadable == key \in DOMAIN files /\ files[key].json \in {"object", "array", "wrapped"}

MapLoaded == op \in MapOps /\ pc = "done"

\* C24: in the Map-cached loadMake and loadMakeJSON, every call for a key
\* that was asked before returns what the first call for it returned, the
\* data or null, without consulting the file system: failures are cached.
C24_FailuresCached ==
  MapLoaded =>
    /\ \A earlier \in calls :
         earlier.key = key => (earlier.result = result /\ reads = {})
    /\ key # "" => (key \in DOMAIN priceCache /\ priceCache[key] = result)
    /\ \A earlier \in calls :
         earlier.key # "" =>
           (earlier.key \in DOMAIN priceCache
              /\ priceCache[earlier.key] = earlier.result)

\* C24 witness: "toyota" was not found by the first call; its file, a
\* catalog, is there now, and a later call still returned null without
\* looking at the file system.
C24_Witness ==
  /\ MapLoaded
  /\ key = "toyota"
  /\ [key |-> "toyota", result |-> JSONNull] \in calls
  /\ "toyota" \in DOMAIN files
  /\ files["toyota"] = Catalog("object", 1)
  /\ result = JSONNull
  /\ reads = {}

\* The checkout handler has been invoked (the API key was valid) and is over.
CheckoutOver == op = CheckoutOp /\ pc = "done" /\ request.authorized

\* vehicle, repair, zip or quoteData was not sent.
AnyMissing ==
  \/ request.vehicle = "undefined"
  \/ request.repair = "undefined"
  \/ zip = JSUndefined
  \/ request.quoteData = "undefined"

\* C25: the checkout handler answers a request without vehicle, repair, zip
\* or quoteData with HTTP 500 and {ok: false, error: 'Missing required
\* fields'}, creates no Stripe session for it, and never ends without having
\* sent a response.
C25_MissingFields ==
  CheckoutOver =>
    /\ response # NoResponse
    /\ outcome = "returned"
    /\ AnyMissing =>
         /\ response = [status |-> 500, ok |-> FALSE, error |-> "Missing required fields"]
         /\ sessions = {}

\* n is one of the integers 0-999, 9000-9999, 20200-20599, 88500-88899,
\* 96900-96999.
Unmapped(n) ==
  \/ n >= 0 /\ n <= 999
  \/ n >= 9000 /\ n <= 9999
  \/ n >= 20200 /\ n <= 20599
  \/ n >= 88500 /\ n <= 88899
  \/ n >= 96900 /\ n <= 96999

\* C26: over the five-digit ZIPs 00000-99999 getStateFromZip returns null
\* exactly for 0-999, 9000-9999, 20200-20599, 88500-88899 and 96900-96999 and
\* a state for every other one, and getLaborRate returns the National-Average
\* result for exactly these ZIPs.
C26_UnmappedZips ==
  (FiveDigits(zip) /\ pc = "done") =>
    /\ outcome = "returned"
    /\ op = "getStateFromZip" =>
         /\ state = JSNull <=> Unmapped(ZipValue(zip.s))
         /\ state # JSNull => Len(state) = 2
    /\ op = "getLaborRate" =>
         /\ IsNationalAverage(result) <=> Unmapped(ZipValue(zip.s))
         /\ result.source = "National Average" <=> Unmapped(ZipValue(zip.s))

\* C26 witness: getLaborRate("88899"), the last ZIP of a gap, has returned
\* the National-Average result.
C26_Witness ==
  /\ op = "getLaborRate"
  /\ pc = "done"
  /\ zip = JSString(<<"8", "8", "8", "9", "9">>)
  /\ state = JSNull
  /\ result = NationalAverageResult

\* The state codes that the range chain of getStateFromZip can return.
ReturnableStates == {ZipRanges[i].state : i \in 1..Len(ZipRanges)}

\* The rate the table has for a state, read entry by entry.
TableRate(table, code) ==
  LET entries == {i \in 1..Len(table) : table[i].state = code}
  IN  table[CHOOSE i \in entries : TRUE].rate

\* C27: each of the 51 state codes getStateFromZip can return has an entry in
\* STATE_LABOR_RATES, so with the shipped tables getLaborRate never takes the
\* NATIONAL_AVERAGE fallback for a state without an entry: baseRate is the
\* rate of the state's entry.
C27_EveryStateHasRate ==
  (Shipped /\ op \in RateOps /\ StateKnown) =>
    /\ pc = "base" =>
         /\ Cardinality(ReturnableStates) = 51
         /\ \A code \in ReturnableStates :
              \E i \in 1..Len(STATE_LABOR_RATES) :
                STATE_LABOR_RATES[i].state = code /\ STATE_LABOR_RATES[i].rate > 0
    /\ state \in ReturnableStates
    /\ \E i \in 1..Len(stateRates) : stateRates[i].state = state
    /\ pc \notin {"call", "state", "base"} =>
         /\ baseRate = TableRate(stateRates, state)
         /\ "STATE_LABOR_RATES" \in reads
    /\ Resolved => result.breakdown.baseRate = TableRate(stateRates, state)

\* C27 witness: getLaborRate("20001") has resolved DC, whose entry is the last
\* of the table, and reports its rate 135.63 as baseRate.
C27_Witness ==
  /\ Shipped
  /\ op = "getLaborRate"
  /\ pc = "done"
  /\ state = "DC"
  /\ baseRate = 13563
  /\ result.breakdown.baseRate = 13563

\* The rates of the two tables of the call.
StateTableRates == {stateRates[i].rate : i \in 1..Len(stateRates)}

CityTableRates == {cities[i].rate : i \in 1..Len(cities)}

\* The source of a metro-area result.
IsMetroSource(source) == \E i \in 1..Len(cities) : source = cities[i].name \o " metro area"

\* C28: every result of getLaborRate has rate = breakdown.baseRate +
\* breakdown.cityPremium; cityPremium is not zero only in a metro-area
\* result; and rate is NATIONAL_AVERAGE, a rate of STATE_LABOR_RATES or a
\* rate of CITY_COORDINATES, never a value between them.
C28_RateDecomposition ==
  Resolved =>
    /\ result.rate = result.breakdown.baseRate + result.breakdown.cityPremium
    /\ result.breakdown.cityPremium # 0 => IsMetroSource(result.source)
    /\ ~IsMetroSource(result.source) => result.rate = result.breakdown.baseRate
    /\ result.rate \in {14406} \cup StateTableRates \cup CityTableRates
    /\ result.breakdown.baseRate \in {14406} \cup StateTableRates
    /\ IsMetroSource(result.source) => result.rate \in CityTableRates

\* C28 witness: getLaborRate("10001") has returned rate 140.00 with baseRate
\* 135.63 and cityPremium 4.37.
C28_Witness ==
  /\ Shipped
  /\ op = "getLaborRate"
  /\ pc = "done"
  /\ zip = JSString(<<"1", "0", "0", "0", "1">>)
  /\ result.rate = 14000
  /\ result.breakdown.baseRate = 13563
  /\ result.breakdown.cityPremium = 437

\* tenths is d (in 1e-5 mile) rounded to one decimal place.
IsTenths(tenths, d) == 2 * Abs((tenths * 10000) - d) <= 10000

\* C29: the metro decision of getLaborRate compares the unrounded minimum
\* distance with 15 miles, and the distance is rounded to one decimal place
\* only for distanceToCity: a metro-area result reports at most 15.0, a
\* state-average result at least 15.0, and a state-average result can report
\* exactly 15.0 (the witness).
C29_UnroundedDecision ==
  (Resolved /\ pc = "done" /\ nearestCity # NoCity) =>
    /\ IsMetroSource(result.source) <=> minDistance <= 1500000
    /\ result.source = state \o " state average" <=> minDistance > 1500000
    /\ IsTenths(result.breakdown.distanceToCity, minDistance)
    /\ IsMetroSource(result.source) => result.breakdown.distanceToCity <= 150
    /\ ~IsMetroSource(result.source) => result.breakdown.distanceToCity >= 150

\* C29 witness: getLaborRate("91600") has found los angeles a little more
\* than 15 miles away and returned the CA state average with distanceToCity
\* 15.0.
C29_Witness ==
  /\ Shipped
  /\ op = "getLaborRate"
  /\ pc = "done"
  /\ zip = JSString(<<"9", "1", "6", "0", "0">>)
  /\ minDistance > 1500000
  /\ result.source = "CA state average"
  /\ result.breakdown.nearestCity = "los angeles"
  /\ result.breakdown.distanceToCity = 150

\* getLaborRate has returned the metro result of the city, at its table rate.
MetroOf(name, rate) ==
  /\ minDistance <= 1500000
  /\ nearestCity.name = name
  /\ result.source = name \o " metro area"
  /\ result.rate = rate
  /\ result.breakdown.nearestCity = name
  /\ result.breakdown.baseRate = TableRate(STATE_LABOR_RATES, state)
  /\ result.breakdown.cityPremium = rate - TableRate(STATE_LABOR_RATES, state)

\* C30: with the shipped tables every ZIP of 10000-14999, 60000-69999 and
\* 77000-79999 is estimated within 15 miles of new york, chicago and houston
\* and gets that city's metro rate whatever its state: no NY ZIP gets the NY
\* state rate, and 63000-69999 (MO, KS, NE) get the chicago rate 147 with the
\* baseRate of their own state.
C30_BandsAreMetro ==
  (op = "getLaborRate" /\ pc = "done" /\ FiveDigits(zip)) =>
    LET n == ZipValue(zip.s)
    IN  /\ outcome = "returned"
        /\ (n >= 10000 /\ n <= 14999) => (state = "NY" /\ MetroOf("new york", 14000))
        /\ state = "NY" =>
             (result.source # "NY state average" /\ result.rate # 13563)
        /\ (n >= 60000 /\ n <= 69999) => MetroOf("chicago", 14700)
        /\ (n >= 60000 /\ n <= 62999) => state = "IL"
        /\ (n >= 63000 /\ n <= 65999) => state = "MO"
        /\ (n >= 66000 /\ n <= 67999) => state = "KS"
        /\ (n >= 68000 /\ n <= 69999) => state = "NE"
        /\ (n >= 77000 /\ n <= 79999) => (state = "TX" /\ MetroOf("houston", 14700))

\* C30 witness: getLaborRate("69999"), a Nebraska ZIP, has returned the
\* chicago rate 147.00 with Nebraska's 147.41 as baseRate.
C30_Witness ==
  /\ op = "getLaborRate"
  /\ pc = "done"
  /\ zip = JSString(<<"6", "9", "9", "9", "9">>)
  /\ state = "NE"
  /\ result.source = "chicago metro area"
  /\ result.rate = 14700
  /\ result.breakdown.baseRate = 14741
  /\ result.breakdown.cityPremium = 0 - 41

=============================================================================
